---- MODULE Spec2Model ----
(***************************************************************************)
(* A model of twitch/http.py: HTTPClient's session lifecycle, the request  *)
(* pipeline (_request / request), token validation and refresh, the        *)
(* Refresher task and subscribe.                                           *)
(*                                                                         *)
(* Every coroutine call is a frame on the calling task's stack; a task     *)
(* runs (cur = t) from one suspension point to the next, as asyncio's      *)
(* cooperative scheduler does, and other tasks step only while cur is      *)
(* NoTask.  The provider (Twitch) answers each request sent with a status  *)
(* chosen nondeterministically, or the send fails with OSError.            *)
(***************************************************************************)
EXTENDS Integers, Sequences, FiniteSets, TLC

VARIABLES
    session,        \* HTTPClient.__session: 0 is None, else an index into sessions
    sessions,       \* every ClientSession ever created: [closed, headers' Authorization]
    locked,         \* HTTPClient._session_lock: asyncio.Lock._locked
    waiters,        \* asyncio.Lock._waiters, the tasks queued in acquire()
    refresh_token,  \* HTTPClient._refresh_token (NoToken is None)
    client_secret,  \* HTTPClient._client_secret (BOOLEAN: present or None)
    prog,           \* per task: the top-level calls it has still to make
    stack,          \* per task: its coroutine frames, the running one last
    ret,            \* per task: what the callee just returned or raised
    results,        \* per task: the outcomes of its finished top-level calls
    cur,            \* the task the event loop is running, NoTask between steps
    log,            \* per task: the HTTP requests of its current top-level call
    dispatched,     \* the events handed to HTTPClient._dispatch, in order
    issued,         \* the access tokens the provider has issued by exchange
    flow            \* DeviceAuthFlow: its own HTTP client, and the owning client

vars == <<session, sessions, locked, waiters, refresh_token, client_secret,
          prog, stack, ret, results, cur, log, dispatched, issued, flow>>

---------------------------------------------------------------------------
(* Bounds of the model. *)

\* The provider answers at most MaxResp requests of one task.
MaxResp == 5
\* The HTTP statuses the classification is checked on: MinStatus..MaxStatus.
\* In SpecRefresh, the Refresher and the caller of request send at most
\* MaxSent requests between them.
MaxSent == 5
\* A batch of subscriptions has at most MaxSubs elements.
MaxSubs == 3
MinStatus == 100
MaxStatus == 610

Tasks == {1, 2, 3}
NoTask == 0

(* Values that stand for Python's None. *)
None == 0 - 1
NoToken == 0

---------------------------------------------------------------------------
(* Provider answers. *)

\* The answer to a request that is still in flight, and a transport failure.
Pending == 0 - 2
OSErr == 0 - 3

\* The statuses the provider answers with in the specifications of the
\* request pipeline; every class of _request's classification is in it.
Statuses == {200, 202, 400, 401, 403, 404, 500, 302}

\* range(1, 4): the values retry_count takes in _request.
RetryCounts == 1 .. 3

\* response.status classified as _request does it (http.py 198-212):
\* "ok" is the return of response.json(), any other value the error raised.
StatusIsOk(status) == status \in {200, 202}

StatusIsServerError(status) == 500 <= status /\ status < 600

ClassifyNo202(status) ==
    IF status = 200 THEN "ok"
    ELSE IF status = 400 THEN "BadRequest"
    ELSE IF status = 401 THEN "Unauthorized"
    ELSE IF status = 403 THEN "Forbidden"
    ELSE IF status = 404 THEN "NotFound"
    ELSE IF StatusIsServerError(status) THEN "TwitchServerError"
    ELSE "UnknownError"
Classify(status) ==
    IF StatusIsOk(status) THEN "ok"
    ELSE IF status = 400 THEN "BadRequest"
    ELSE IF status = 401 THEN "Unauthorized"
    ELSE IF status = 403 THEN "Forbidden"
    ELSE IF status = 404 THEN "NotFound"
    ELSE IF StatusIsServerError(status) THEN "TwitchServerError"
    ELSE "UnknownError"

---------------------------------------------------------------------------
(* Frames, return values and the stack. *)

Frame(fn) ==
    [fn |-> fn, pc |-> "start", route |-> "none", retry_count |-> 0,
     generate |-> FALSE, access_token |-> NoToken, rtoken |-> NoToken,
     nvalid |-> 0, ngen |-> 0,
     expires_in |-> 0, elapsed_time |-> 0, slept |-> 0, since |-> 0,
     disabled |-> FALSE, nocreds |-> FALSE, index |-> 0, count |-> 0,
     device_code |-> 0, interval |-> 0]

NoRet == [kind |-> "none", val |-> None, err |-> "", msg |-> ""]
Val(v) == [kind |-> "val", val |-> v, err |-> "", msg |-> ""]
Exc(e, m) == [kind |-> "exc", val |-> None, err |-> e, msg |-> m]

Top(t) == stack[t][Len(stack[t])]
Pop(s) == SubSeq(s, 1, Len(s) - 1)
SetTop(s, f) == [s EXCEPT ![Len(s)] = f]

\* The running frame of t is a frame of fn at pc.
At(t, fn, pc) ==
    /\ cur = t
    /\ stack[t] # <<>>
    /\ Top(t).fn = fn
    /\ Top(t).pc = pc

\* t is suspended in a frame of fn at pc, and the event loop is free.
Suspended(t, fn, pc) ==
    /\ cur = NoTask
    /\ stack[t] # <<>>
    /\ Top(t).fn = fn
    /\ Top(t).pc = pc

\* The running frame moves to pc.
Goto(t, pc) == stack' = [stack EXCEPT ![t] = SetTop(@, [Top(t) EXCEPT !.pc = pc])]

\* The running frame calls a coroutine: it waits at pc for frame f.
Call(t, pc, f) ==
    stack' = [stack EXCEPT ![t] = Append(SetTop(@, [Top(t) EXCEPT !.pc = pc]), f)]

\* The running frame becomes top and calls a coroutine, whose frame is f.
Push(t, top, f) == stack' = [stack EXCEPT ![t] = Append(SetTop(@, top), f)]

\* The running frame ends with r (a value or an exception).  A top-level
\* call that ends goes to results, with its frame; an exception there ends
\* the task.
Leave(t, r) ==
    /\ stack' = [stack EXCEPT ![t] = Pop(@)]
    /\ IF Len(stack[t]) > 1
       THEN /\ ret' = [ret EXCEPT ![t] = r]
            /\ cur' = t
            /\ UNCHANGED <<results, prog>>
       ELSE /\ ret' = [ret EXCEPT ![t] = NoRet]
            /\ results' = [results EXCEPT ![t] = Append(@, [frame |-> Top(t), out |-> r])]
            /\ prog' = [prog EXCEPT ![t] = IF r.kind = "exc" THEN <<>> ELSE @]
            /\ cur' = IF r.kind = "exc" \/ prog[t] = <<>> THEN NoTask ELSE t

\* The running frame goes on, or suspends; what the callee returned is used up.
Stay(t) ==
    /\ cur' = t
    /\ ret' = [ret EXCEPT ![t] = NoRet]
    /\ UNCHANGED <<results, prog>>
Suspend(t) ==
    /\ cur' = NoTask
    /\ ret' = [ret EXCEPT ![t] = NoRet]
    /\ UNCHANGED <<results, prog>>

Returned(t) == ret[t].kind = "val"
Raised(t) == ret[t].kind = "exc"

---------------------------------------------------------------------------
(* The session and its lock. *)

\* f'Bearer {access_token}'
Bearer(access_token) == <<"Bearer", access_token>>

\* HTTPClient.is_open
is_open == session # 0 /\ ~sessions[session].closed

\* asyncio.Lock.acquire() returns at once when the lock is free and nobody
\* queues for it; otherwise the caller queues.  release() clears _locked and
\* wakes the first waiter, which takes the lock when it next runs.
LockFree == ~locked /\ waiters = <<>>
Woken(t) == ~locked /\ waiters # <<>> /\ Head(waiters) = t

---------------------------------------------------------------------------
(* HTTPClient._request *)

RequestFrame(route) ==
    [Frame("_request") EXCEPT !.pc = "send", !.route = route, !.retry_count = 1]

\* The provider's JSON body for an answer to route: the number of elements
\* of data (helix), expires_in (validate), the new access token (token).
ExpiresIn == {0, 3600}
IssuedToken(n) == 100 + n
Bodies(route, status) ==
    IF ~(200 <= status /\ status < 300) THEN {None}
    ELSE IF route = "validate" THEN ExpiresIn
    ELSE IF route = "token" THEN {IssuedToken(issued + 1)}
    ELSE {0, 1, 2}

LastLog(t) == log[t][Len(log[t])]
SetLast(t, e) == [log EXCEPT ![t] = [@ EXCEPT ![Len(@)] = e]]

\* self.__session.request(method, url, **kwargs): the request leaves with
\* the session's headers of this moment.
_request_send(t) ==
    /\ At(t, "_request", "send")
    /\ Len(log[t]) < MaxResp
    /\ IF session = 0
       THEN /\ Leave(t, Exc("AttributeError", ""))
            /\ UNCHANGED log
       ELSE IF sessions[session].closed
       THEN /\ Leave(t, Exc("RuntimeError", ""))
            /\ UNCHANGED log
       ELSE /\ log' = [log EXCEPT ![t] = Append(@,
                        [route |-> Top(t).route, auth |-> sessions[session].auth,
                         depth |-> Len(stack[t]), status |-> Pending,
                         body |-> None, sleep |-> 0])]
            /\ Goto(t, "wait")
            /\ Suspend(t)
    /\ UNCHANGED <<flow, session, sessions, locked, waiters, refresh_token,
                   client_secret, dispatched, issued>>

\* The response arrives: return await response.json(), or raise by status.
Respond(t, status, body) ==
    /\ Suspended(t, "_request", "wait")
    /\ log' = SetLast(t, [LastLog(t) EXCEPT !.status = status, !.body = body])
    /\ IF Classify(status) = "ok"
       THEN Leave(t, Val(body))
       ELSE Leave(t, Exc(Classify(status), ""))
    /\ issued' = IF Top(t).route = "token" /\ 200 <= status /\ status < 300
                 THEN issued + 1 ELSE issued
    /\ UNCHANGED <<flow, session, sessions, locked, waiters, refresh_token,
                   client_secret, dispatched>>

_request_response(t, status) ==
    /\ Suspended(t, "_request", "wait")
    /\ \E body \in Bodies(Top(t).route, status) : Respond(t, status, body)

\* 5 * retry_count
BackoffFixed(retry_count) == 5
Backoff(retry_count) == 5 * retry_count

\* except OSError: if 3 >= retry_count: await sleep(5 * retry_count)
_request_oserror(t) ==
    /\ Suspended(t, "_request", "wait")
    /\ IF 3 >= Top(t).retry_count
       THEN /\ log' = SetLast(t, [LastLog(t) EXCEPT !.status = OSErr,
                                   !.sleep = Backoff(Top(t).retry_count)])
            /\ Goto(t, "sleep")
            /\ Suspend(t)
       ELSE /\ log' = SetLast(t, [LastLog(t) EXCEPT !.status = OSErr])
            /\ Goto(t, "next")
            /\ Stay(t)
    /\ UNCHANGED <<flow, session, sessions, locked, waiters, refresh_token,
                   client_secret, dispatched, issued>>

\* The sleep is over (or there was none): the next retry_count of
\* range(1, 4), or the loop's else: raise HTTPException.
_request_next(t) ==
    /\ \/ Suspended(t, "_request", "sleep")
       \/ At(t, "_request", "next")
    /\ IF Top(t).retry_count + 1 \in RetryCounts
       THEN /\ stack' = [stack EXCEPT ![t] = SetTop(@,
                  [Top(t) EXCEPT !.pc = "send", !.retry_count = @ + 1])]
            /\ Stay(t)
       ELSE Leave(t, Exc("HTTPException", ""))
    /\ UNCHANGED <<flow, session, sessions, locked, waiters, refresh_token,
                   client_secret, log, dispatched, issued>>

---------------------------------------------------------------------------
(* HTTPClient.request *)

\* except (Unauthorized, BadRequest): raise -- a bare raise re-raises the
\* exception being handled, which is the one _validate_token raised.
ReraiseOriginal(e) == Exc("Unauthorized", "")
Reraise(e) == e

\* data = await self._request(route=route, **kwargs)
request_send(t) ==
    /\ At(t, "request", "start")
    /\ Call(t, "sent", RequestFrame(Top(t).route))
    /\ Stay(t)
    /\ UNCHANGED <<flow, session, sessions, locked, waiters, refresh_token,
                   client_secret, log, dispatched, issued>>

\* return data
request_return(t) ==
    /\ At(t, "request", "sent")
    /\ Returned(t)
    /\ Leave(t, ret[t])
    /\ UNCHANGED <<flow, session, sessions, locked, waiters, refresh_token,
                   client_secret, log, dispatched, issued>>

\* except Unauthorized: await self._validate_token(generate=True)
request_unauthorized(t) ==
    /\ At(t, "request", "sent")
    /\ Raised(t)
    /\ ret[t].err = "Unauthorized"
    /\ Push(t, [Top(t) EXCEPT !.pc = "validating", !.nvalid = @ + 1],
            [Frame("_validate_token") EXCEPT !.generate = TRUE])
    /\ Stay(t)
    /\ UNCHANGED <<flow, session, sessions, locked, waiters, refresh_token,
                   client_secret, log, dispatched, issued>>

\* Any other exception of _request leaves request as it is.
request_error_retry(t) ==
    /\ At(t, "request", "sent")
    /\ Raised(t)
    /\ ret[t].err # "Unauthorized"
    /\ IF ret[t].err = "TwitchServerError"
       THEN Goto(t, "start") /\ Stay(t)
       ELSE Leave(t, ret[t])
    /\ UNCHANGED <<flow, session, sessions, locked, waiters, refresh_token,
                   client_secret, log, dispatched, issued>>
request_error(t) ==
    /\ At(t, "request", "sent")
    /\ Raised(t)
    /\ ret[t].err # "Unauthorized"
    /\ Leave(t, ret[t])
    /\ UNCHANGED <<flow, session, sessions, locked, waiters, refresh_token,
                   client_secret, log, dispatched, issued>>

\* The validation returned: while True goes round and sends the route again.
request_validated_return(t) ==
    /\ At(t, "request", "validating")
    /\ Returned(t)
    /\ Leave(t, ret[t])
    /\ UNCHANGED <<flow, session, sessions, locked, waiters, refresh_token,
                   client_secret, log, dispatched, issued>>
request_validated(t) ==
    /\ At(t, "request", "validating")
    /\ Returned(t)
    /\ Goto(t, "start")
    /\ Stay(t)
    /\ UNCHANGED <<flow, session, sessions, locked, waiters, refresh_token,
                   client_secret, log, dispatched, issued>>

\* The validation raised: Unauthorized and BadRequest are caught and
\* re-raised, anything else passes through.
request_reraise(t) ==
    /\ At(t, "request", "validating")
    /\ Raised(t)
    /\ IF ret[t].err \in {"Unauthorized", "BadRequest"}
       THEN Leave(t, Reraise(ret[t]))
       ELSE Leave(t, ret[t])
    /\ UNCHANGED <<flow, session, sessions, locked, waiters, refresh_token,
                   client_secret, log, dispatched, issued>>

---------------------------------------------------------------------------
(* HTTPClient._validate_token *)

InvalidRefresh == "Invalid refresh token or client secret."

\* if self._refresh_token and self._client_secret
HasCredentialsNoSecret == refresh_token # NoToken
HasCredentials == refresh_token # NoToken /\ client_secret

\* if generate and (self._client_secret and self._refresh_token)
MayGenerate(generate) == generate /\ HasCredentials

\* validation = await self._request(route=route)
_validate_token_send(t) ==
    /\ At(t, "_validate_token", "start")
    /\ Call(t, "sent", RequestFrame("validate"))
    /\ Stay(t)
    /\ UNCHANGED <<flow, session, sessions, locked, waiters, refresh_token,
                   client_secret, log, dispatched, issued>>

\* return validation
_validate_token_return(t) ==
    /\ At(t, "_validate_token", "sent")
    /\ Returned(t)
    /\ Leave(t, ret[t])
    /\ UNCHANGED <<flow, session, sessions, locked, waiters, refresh_token,
                   client_secret, log, dispatched, issued>>

\* except Unauthorized: ... await self._generate_token()
_validate_token_generate(t) ==
    /\ At(t, "_validate_token", "sent")
    /\ Raised(t)
    /\ ret[t].err = "Unauthorized"
    /\ MayGenerate(Top(t).generate)
    /\ Push(t, [Top(t) EXCEPT !.pc = "generating", !.ngen = @ + 1],
            Frame("_generate_token"))
    /\ Stay(t)
    /\ UNCHANGED <<flow, session, sessions, locked, waiters, refresh_token,
                   client_secret, log, dispatched, issued>>

\* except Unauthorized: ... else: raise
_validate_token_raise(t) ==
    /\ At(t, "_validate_token", "sent")
    /\ Raised(t)
    /\ ret[t].err = "Unauthorized"
    /\ ~MayGenerate(Top(t).generate)
    /\ Leave(t, ret[t])
    /\ UNCHANGED <<flow, session, sessions, locked, waiters, refresh_token,
                   client_secret, log, dispatched, issued>>

\* Any other exception of _request leaves _validate_token as it is.
_validate_token_error(t) ==
    /\ At(t, "_validate_token", "sent")
    /\ Raised(t)
    /\ ret[t].err # "Unauthorized"
    /\ Leave(t, ret[t])
    /\ UNCHANGED <<flow, session, sessions, locked, waiters, refresh_token,
                   client_secret, log, dispatched, issued>>

\* _generate_token returned (a Refresh or None): while True validates again.
_validate_token_generated(t) ==
    /\ At(t, "_validate_token", "generating")
    /\ Returned(t)
    /\ Goto(t, "start")
    /\ Stay(t)
    /\ UNCHANGED <<flow, session, sessions, locked, waiters, refresh_token,
                   client_secret, log, dispatched, issued>>

\* except (BadRequest, Forbidden): raise Unauthorized(message=...);
\* any other exception of _generate_token passes through.
_validate_token_refresh_failed(t) ==
    /\ At(t, "_validate_token", "generating")
    /\ Raised(t)
    /\ IF ret[t].err \in {"BadRequest", "Forbidden"}
       THEN Leave(t, Exc("Unauthorized", InvalidRefresh))
       ELSE Leave(t, ret[t])
    /\ UNCHANGED <<flow, session, sessions, locked, waiters, refresh_token,
                   client_secret, log, dispatched, issued>>

---------------------------------------------------------------------------
(* HTTPClient._generate_token *)

\* refresh = await self.request(route=route, params=params), with the
\* lock held; helpers.quote(self._refresh_token) raises TypeError on None.
Exchange(t) ==
    IF refresh_token = NoToken
    THEN /\ locked' = FALSE
         /\ Leave(t, Exc("TypeError", ""))
    ELSE /\ locked' = TRUE
         /\ Push(t, [Top(t) EXCEPT !.pc = "exchanging"],
                 [Frame("request") EXCEPT !.route = "token"])
         /\ Stay(t)

\* return None: a credential is missing, or the lock is held.
_generate_token_skip(t) ==
    /\ At(t, "_generate_token", "start")
    /\ ~HasCredentials \/ locked
    /\ Leave(t, Val(None))
    /\ UNCHANGED <<flow, session, sessions, locked, waiters, refresh_token,
                   client_secret, log, dispatched, issued>>

\* if not self._session_lock.locked(): async with self._session_lock:
\* the lock is free and is taken at once.
_generate_token_enter_unchecked(t) ==
    /\ At(t, "_generate_token", "start")
    /\ HasCredentials
    /\ Exchange(t)
    /\ UNCHANGED <<flow, session, sessions, waiters, refresh_token,
                   client_secret, log, dispatched, issued>>
_generate_token_enter(t) ==
    /\ At(t, "_generate_token", "start")
    /\ HasCredentials
    /\ LockFree
    /\ Exchange(t)
    /\ UNCHANGED <<flow, session, sessions, waiters, refresh_token,
                   client_secret, log, dispatched, issued>>

\* locked() is False but a woken waiter has not yet taken the lock:
\* acquire() queues behind it.
_generate_token_queue(t) ==
    /\ At(t, "_generate_token", "start")
    /\ HasCredentials
    /\ ~locked
    /\ waiters # <<>>
    /\ waiters' = Append(waiters, t)
    /\ Goto(t, "queued")
    /\ Suspend(t)
    /\ UNCHANGED <<flow, session, sessions, locked, refresh_token,
                   client_secret, log, dispatched, issued>>

_generate_token_wakeup(t) ==
    /\ Suspended(t, "_generate_token", "queued")
    /\ Woken(t)
    /\ waiters' = Tail(waiters)
    /\ Exchange(t)
    /\ UNCHANGED <<flow, session, sessions, refresh_token,
                   client_secret, log, dispatched, issued>>

\* self.__session.headers.update({'Authorization': ...});
\* self._dispatch('refresh_token', refresh['access_token']); return refresh
_generate_token_done_stale(t) ==
    /\ At(t, "_generate_token", "exchanging")
    /\ Returned(t)
    /\ locked' = FALSE
    /\ dispatched' = Append(dispatched, <<"refresh_token", ret[t].val>>)
    /\ Leave(t, ret[t])
    /\ UNCHANGED <<flow, session, sessions, waiters, refresh_token, client_secret,
                   log, issued>>
_generate_token_done(t) ==
    /\ At(t, "_generate_token", "exchanging")
    /\ Returned(t)
    /\ locked' = FALSE
    /\ IF session = 0
       THEN /\ Leave(t, Exc("AttributeError", ""))
            /\ UNCHANGED <<sessions, dispatched>>
       ELSE /\ sessions' = [sessions EXCEPT ![session].auth = Bearer(ret[t].val)]
            /\ dispatched' = Append(dispatched, <<"refresh_token", ret[t].val>>)
            /\ Leave(t, ret[t])
    /\ UNCHANGED <<flow, session, waiters, refresh_token, client_secret, log, issued>>

\* An exception of request leaves the async with, which releases the lock.
_generate_token_failed(t) ==
    /\ At(t, "_generate_token", "exchanging")
    /\ Raised(t)
    /\ locked' = FALSE
    /\ Leave(t, ret[t])
    /\ UNCHANGED <<flow, session, sessions, waiters, refresh_token,
                   client_secret, log, dispatched, issued>>

---------------------------------------------------------------------------
(* HTTPClient._open, HTTPClient.close *)

\* if not self.is_open: self.__session = ClientSession(headers=headers)
CreateSessionAlways(access_token) ==
    /\ sessions' = Append(sessions,
           [closed |-> FALSE, auth |-> Bearer(access_token)])
    /\ session' = Len(sessions) + 1
CreateSession(access_token) ==
    IF ~is_open
    THEN /\ sessions' = Append(sessions,
                [closed |-> FALSE, auth |-> Bearer(access_token)])
         /\ session' = Len(sessions) + 1
    ELSE UNCHANGED <<session, sessions>>

\* async with self._session_lock: the body has no await, so the lock is
\* taken and released within the step.
_open_enter(t) ==
    /\ At(t, "_open", "start")
    /\ LockFree
    /\ CreateSession(Top(t).access_token)
    /\ Leave(t, Val(None))
    /\ UNCHANGED <<flow, locked, waiters, refresh_token, client_secret,
                   log, dispatched, issued>>

_open_queue(t) ==
    /\ At(t, "_open", "start")
    /\ ~LockFree
    /\ waiters' = Append(waiters, t)
    /\ Goto(t, "queued")
    /\ Suspend(t)
    /\ UNCHANGED <<flow, session, sessions, locked, refresh_token,
                   client_secret, log, dispatched, issued>>

_open_wakeup(t) ==
    /\ Suspended(t, "_open", "queued")
    /\ Woken(t)
    /\ waiters' = Tail(waiters)
    /\ CreateSession(Top(t).access_token)
    /\ Leave(t, Val(None))
    /\ UNCHANGED <<flow, locked, refresh_token, client_secret,
                   log, dispatched, issued>>

BoolVal(b) == IF b THEN 1 ELSE 0

\* if self.is_open: await self.__session.close() -- the session is closed
\* and the task may be suspended before self.__session = None;
\* otherwise return not self.is_open.
CloseSessionUnchecked(t) ==
    IF session = 0
    THEN /\ locked' = FALSE
         /\ Leave(t, Exc("AttributeError", ""))
         /\ UNCHANGED sessions
    ELSE /\ locked' = TRUE
         /\ sessions' = [sessions EXCEPT ![session].closed = TRUE]
         /\ Goto(t, "closing")
         /\ Suspend(t)
CloseSession(t) ==
    IF is_open
    THEN /\ locked' = TRUE
         /\ sessions' = [sessions EXCEPT ![session].closed = TRUE]
         /\ Goto(t, "closing")
         /\ Suspend(t)
    ELSE /\ locked' = FALSE
         /\ Leave(t, Val(BoolVal(~is_open)))
         /\ UNCHANGED sessions

close_enter_unlocked(t) ==
    /\ At(t, "close", "start")
    /\ CloseSession(t)
    /\ UNCHANGED <<flow, session, waiters, refresh_token, client_secret,
                   log, dispatched, issued>>
close_enter(t) ==
    /\ At(t, "close", "start")
    /\ LockFree
    /\ CloseSession(t)
    /\ UNCHANGED <<flow, session, waiters, refresh_token, client_secret,
                   log, dispatched, issued>>

close_queue(t) ==
    /\ At(t, "close", "start")
    /\ ~LockFree
    /\ waiters' = Append(waiters, t)
    /\ Goto(t, "queued")
    /\ Suspend(t)
    /\ UNCHANGED <<flow, session, sessions, locked, refresh_token,
                   client_secret, log, dispatched, issued>>

close_wakeup(t) ==
    /\ Suspended(t, "close", "queued")
    /\ Woken(t)
    /\ waiters' = Tail(waiters)
    /\ CloseSession(t)
    /\ UNCHANGED <<flow, session, refresh_token, client_secret,
                   log, dispatched, issued>>

\* self.__session = None; the lock is released; return not self.is_open
close_done(t) ==
    /\ Suspended(t, "close", "closing")
    /\ session' = 0
    /\ locked' = FALSE
    /\ Leave(t, Val(BoolVal(session' = 0 \/ sessions[session'].closed)))
    /\ UNCHANGED <<flow, sessions, waiters, refresh_token, client_secret,
                   log, dispatched, issued>>

---------------------------------------------------------------------------
(* HTTPClient.open_session *)

\* await self._open(access_token=token)
open_session_open(t) ==
    /\ At(t, "open_session", "start")
    /\ Push(t, [Top(t) EXCEPT !.pc = "opening"],
            [Frame("_open") EXCEPT !.access_token = Top(t).access_token])
    /\ Stay(t)
    /\ UNCHANGED <<flow, session, sessions, locked, waiters, refresh_token,
                   client_secret, log, dispatched, issued>>

\* self._refresh_token = refresh_token
\* validation = await self._validate_token(generate=True)
open_session_validate(t) ==
    /\ At(t, "open_session", "opening")
    /\ Returned(t)
    /\ refresh_token' = Top(t).rtoken
    /\ Push(t, [Top(t) EXCEPT !.pc = "validating"],
            [Frame("_validate_token") EXCEPT !.generate = TRUE])
    /\ Stay(t)
    /\ UNCHANGED <<flow, session, sessions, locked, waiters,
                   client_secret, log, dispatched, issued>>

\* if validation['expires_in'] == 0: (two log lines, nothing else)
\* else: self._refresh_token = refresh_token
\* return validation
open_session_return(t) ==
    /\ At(t, "open_session", "validating")
    /\ Returned(t)
    /\ refresh_token' = IF ret[t].val = 0 THEN refresh_token ELSE Top(t).rtoken
    /\ Leave(t, ret[t])
    /\ UNCHANGED <<flow, session, sessions, locked, waiters,
                   client_secret, log, dispatched, issued>>

\* An exception of _validate_token leaves open_session as it is.
open_session_error(t) ==
    /\ At(t, "open_session", "validating")
    /\ Raised(t)
    /\ Leave(t, ret[t])
    /\ UNCHANGED <<flow, session, sessions, locked, waiters, refresh_token,
                   client_secret, log, dispatched, issued>>

---------------------------------------------------------------------------
(* HTTPClient.Refresher *)

\* Time passes while the Refresher sleeps: the duration asked for, and a
\* delay of the event loop and of the requests of the iteration before.
Delays == {0, 60}

Min(a, b) == IF a <= b THEN a ELSE b
Max(a, b) == IF a >= b THEN a ELSE b

\* min((expires_in - 300), 3540)
SleepForAtLeastMinute(expires_in) == Max(Min(expires_in - 300, 3540), 60)
SleepFor(expires_in) == Min(expires_in - 300, 3540)

\* start_time = time(); without both credentials expires_in = 3540 + 300.
Refresher_start(t) ==
    /\ At(t, "Refresher", "start")
    /\ stack' = [stack EXCEPT ![t] = SetTop(@,
          [Top(t) EXCEPT !.pc = "loop",
                         !.elapsed_time = 0,
                         !.nocreds = ~HasCredentials,
                         !.expires_in = IF HasCredentials THEN @ ELSE 3540 + 300])]
    /\ Stay(t)
    /\ UNCHANGED <<flow, session, sessions, locked, waiters, refresh_token,
                   client_secret, log, dispatched, issued>>

\* await sleep(min((expires_in - 300), 3540))
Refresher_sleep(t) ==
    /\ At(t, "Refresher", "loop")
    /\ stack' = [stack EXCEPT ![t] = SetTop(@,
          [Top(t) EXCEPT !.pc = "sleeping", !.slept = SleepFor(Top(t).expires_in)])]
    /\ Suspend(t)
    /\ UNCHANGED <<flow, session, sessions, locked, waiters, refresh_token,
                   client_secret, log, dispatched, issued>>

\* elapsed_time = time() - start_time after the sleep;
\* if elapsed_time >= expires_in - 300: start_time = time();
\*     await self._generate_token()
\* else straight to validation = await self._validate_token()
Refresher_wake(t, delay) ==
    /\ Suspended(t, "Refresher", "sleeping")
    /\ LET elapsed_time == Top(t).elapsed_time + Max(Top(t).slept, 0) + delay
           since == Top(t).since + Max(Top(t).slept, 0)
       IN IF elapsed_time >= Top(t).expires_in - 300
          THEN Push(t, [Top(t) EXCEPT !.pc = "generating", !.elapsed_time = 0,
                                      !.since = since],
                    Frame("_generate_token"))
          ELSE Push(t, [Top(t) EXCEPT !.pc = "validating",
                                      !.elapsed_time = elapsed_time,
                                      !.since = since],
                    Frame("_validate_token"))
    /\ Stay(t)
    /\ UNCHANGED <<flow, session, sessions, locked, waiters, refresh_token,
                   client_secret, log, dispatched, issued>>

\* _generate_token returned: validation = await self._validate_token()
Refresher_generated(t) ==
    /\ At(t, "Refresher", "generating")
    /\ Returned(t)
    /\ Push(t, [Top(t) EXCEPT !.pc = "validating"], Frame("_validate_token"))
    /\ Stay(t)
    /\ UNCHANGED <<flow, session, sessions, locked, waiters, refresh_token,
                   client_secret, log, dispatched, issued>>

\* expires_in = validation['expires_in'], and round the loop
Refresher_validated(t) ==
    /\ At(t, "Refresher", "validating")
    /\ Returned(t)
    /\ stack' = [stack EXCEPT ![t] = SetTop(@,
          [Top(t) EXCEPT !.pc = "loop", !.expires_in = ret[t].val, !.since = 0])]
    /\ Stay(t)
    /\ UNCHANGED <<flow, session, sessions, locked, waiters, refresh_token,
                   client_secret, log, dispatched, issued>>

\* except BadRequest: self._refresh_token = None, and round the loop
Refresher_badrequest_keep(t) ==
    /\ \/ At(t, "Refresher", "generating")
       \/ At(t, "Refresher", "validating")
    /\ Raised(t)
    /\ ret[t].err = "BadRequest"
    /\ stack' = [stack EXCEPT ![t] = SetTop(@,
          [Top(t) EXCEPT !.pc = "loop", !.disabled = TRUE])]
    /\ Stay(t)
    /\ UNCHANGED <<flow, session, sessions, locked, waiters, refresh_token,
                   client_secret, log, dispatched, issued>>
Refresher_badrequest(t) ==
    /\ \/ At(t, "Refresher", "generating")
       \/ At(t, "Refresher", "validating")
    /\ Raised(t)
    /\ ret[t].err = "BadRequest"
    /\ refresh_token' = NoToken
    /\ stack' = [stack EXCEPT ![t] = SetTop(@,
          [Top(t) EXCEPT !.pc = "loop", !.disabled = TRUE])]
    /\ Stay(t)
    /\ UNCHANGED <<flow, session, sessions, locked, waiters,
                   client_secret, log, dispatched, issued>>

\* Any other exception leaves the try, the loop and the coroutine.
Refresher_error(t) ==
    /\ \/ At(t, "Refresher", "generating")
       \/ At(t, "Refresher", "validating")
    /\ Raised(t)
    /\ ret[t].err # "BadRequest"
    /\ Leave(t, ret[t])
    /\ UNCHANGED <<flow, session, sessions, locked, waiters, refresh_token,
                   client_secret, log, dispatched, issued>>

---------------------------------------------------------------------------
(* HTTPClient.subscribe *)

\* raise SubscriptionError(subscription=..., version=...): the error names
\* the subscription, here by its position in the batch.
SubscriptionError(index) ==
    [kind |-> "exc", val |-> index, err |-> "SubscriptionError", msg |-> ""]
\* raise Forbidden(f'Subscription `{name}` is missing proper authorization')
MissingAuthorizationText == "Subscription is missing proper authorization"
MissingAuthorization(index) ==
    [kind |-> "exc", val |-> index, err |-> "Forbidden",
     msg |-> MissingAuthorizationText]

\* for subscription in subscriptions: await self.request(route=route, json=data)
\* and after the last one self._dispatch('ready')
subscribe_next(t) ==
    /\ At(t, "subscribe", "start")
    /\ IF Top(t).index < Top(t).count
       THEN /\ Push(t, [Top(t) EXCEPT !.pc = "submitting", !.index = @ + 1],
                    [Frame("request") EXCEPT !.route = "eventsub"])
            /\ Stay(t)
            /\ UNCHANGED dispatched
       ELSE /\ dispatched' = Append(dispatched, <<"ready">>)
            /\ Leave(t, Val(None))
    /\ UNCHANGED <<flow, session, sessions, locked, waiters, refresh_token,
                   client_secret, log, issued>>

\* The submission was accepted: the next subscription of the batch.
subscribe_submitted(t) ==
    /\ At(t, "subscribe", "submitting")
    /\ Returned(t)
    /\ Goto(t, "start")
    /\ Stay(t)
    /\ UNCHANGED <<flow, session, sessions, locked, waiters, refresh_token,
                   client_secret, log, dispatched, issued>>

\* except Forbidden: raise Forbidden(...)
subscribe_forbidden(t) ==
    /\ At(t, "subscribe", "submitting")
    /\ Raised(t)
    /\ ret[t].err = "Forbidden"
    /\ Leave(t, MissingAuthorization(Top(t).index))
    /\ UNCHANGED <<flow, session, sessions, locked, waiters, refresh_token,
                   client_secret, log, dispatched, issued>>

\* except BadRequest: raise SubscriptionError(...)
subscribe_badrequest_raw(t) ==
    /\ At(t, "subscribe", "submitting")
    /\ Raised(t)
    /\ ret[t].err = "BadRequest"
    /\ Leave(t, ret[t])
    /\ UNCHANGED <<flow, session, sessions, locked, waiters, refresh_token,
                   client_secret, log, dispatched, issued>>
subscribe_badrequest(t) ==
    /\ At(t, "subscribe", "submitting")
    /\ Raised(t)
    /\ ret[t].err = "BadRequest"
    /\ Leave(t, SubscriptionError(Top(t).index))
    /\ UNCHANGED <<flow, session, sessions, locked, waiters, refresh_token,
                   client_secret, log, dispatched, issued>>

\* Any other exception of request leaves subscribe as it is.
subscribe_error(t) ==
    /\ At(t, "subscribe", "submitting")
    /\ Raised(t)
    /\ ret[t].err \notin {"Forbidden", "BadRequest"}
    /\ Leave(t, ret[t])
    /\ UNCHANGED <<flow, session, sessions, locked, waiters, refresh_token,
                   client_secret, log, dispatched, issued>>

---------------------------------------------------------------------------
(* HTTPClient.get_client, get_channel, get_stream *)

Accessors == {"get_client", "get_channel", "get_stream"}

\* Route(method='GET', path='users' | 'channels?...' | 'streams?...')
AccessorRoute(fn) ==
    CASE fn = "get_client" -> "users"
      [] fn = "get_channel" -> "channels"
      [] fn = "get_stream" -> "streams"

\* data['data'][0]; the body of an answer is the length of data['data'].
Data0 == <<"data", 0>>

\* data = await self.request(route=...)
get_send(t) ==
    /\ cur = t
    /\ stack[t] # <<>>
    /\ Top(t).fn \in Accessors
    /\ Top(t).pc = "start"
    /\ Push(t, [Top(t) EXCEPT !.pc = "requested", !.count = @ + 1],
            [Frame("request") EXCEPT !.route = AccessorRoute(Top(t).fn)])
    /\ Stay(t)
    /\ UNCHANGED <<flow, session, sessions, locked, waiters, refresh_token,
                   client_secret, log, dispatched, issued>>

\* return data['data'][0], which raises IndexError on an empty list
get_first(t) ==
    /\ \/ At(t, "get_client", "requested")
       \/ At(t, "get_channel", "requested")
    /\ Returned(t)
    /\ IF ret[t].val >= 1
       THEN Leave(t, Val(Data0))
       ELSE Leave(t, Exc("IndexError", ""))
    /\ UNCHANGED <<flow, session, sessions, locked, waiters, refresh_token,
                   client_secret, log, dispatched, issued>>

\* if len(data['data']) == 1: return data['data'][0] ... return None
get_stream_return(t) ==
    /\ At(t, "get_stream", "requested")
    /\ Returned(t)
    /\ IF ret[t].val = 1
       THEN Leave(t, Val(Data0))
       ELSE Leave(t, Val(None))
    /\ UNCHANGED <<flow, session, sessions, locked, waiters, refresh_token,
                   client_secret, log, dispatched, issued>>

\* except NotFound: pass ... return None
get_stream_notfound_raise(t) ==
    /\ At(t, "get_stream", "requested")
    /\ Raised(t)
    /\ ret[t].err = "NotFound"
    /\ Leave(t, ret[t])
    /\ UNCHANGED <<flow, session, sessions, locked, waiters, refresh_token,
                   client_secret, log, dispatched, issued>>
get_stream_notfound(t) ==
    /\ At(t, "get_stream", "requested")
    /\ Raised(t)
    /\ ret[t].err = "NotFound"
    /\ Leave(t, Val(None))
    /\ UNCHANGED <<flow, session, sessions, locked, waiters, refresh_token,
                   client_secret, log, dispatched, issued>>

\* Any other exception of request leaves the accessor as it is.
get_error(t) ==
    /\ cur = t
    /\ stack[t] # <<>>
    /\ Top(t).fn \in Accessors
    /\ Top(t).pc = "requested"
    /\ Raised(t)
    /\ Top(t).fn = "get_stream" => ret[t].err # "NotFound"
    /\ Leave(t, ret[t])
    /\ UNCHANGED <<flow, session, sessions, locked, waiters, refresh_token,
                   client_secret, log, dispatched, issued>>

---------------------------------------------------------------------------
(* twitch/ext/oauth/oauth.py: DeviceAuthFlow *)

\* What the device endpoint answers: user_code, device_code, expires_in,
\* interval; and the token pairs the token endpoint grants.
DeviceGrants == {<<11, 21, 10, 5>>, <<12, 22, 5, 5>>}
TokenPairs == {<<201, 301>>, <<202, 302>>}

\* data = await self._http.start_device_auth_flow(scopes=self.scopes)
get_device_code_send(t) ==
    /\ At(t, "get_device_code", "start")
    /\ Goto(t, "wait")
    /\ Suspend(t)
    /\ UNCHANGED <<flow, session, sessions, locked, waiters, refresh_token,
                   client_secret, log, dispatched, issued>>

\* self._client.dispatch('code', data['user_code'])
\* return data['user_code'], data['device_code'], data['expires_in'], data['interval']
get_device_code_silent(t, data) ==
    /\ Suspended(t, "get_device_code", "wait")
    /\ Leave(t, Val(data))
    /\ UNCHANGED <<flow, session, sessions, locked, waiters, refresh_token,
                   client_secret, log, dispatched, issued>>
get_device_code_return(t, data) ==
    /\ Suspended(t, "get_device_code", "wait")
    /\ dispatched' = Append(dispatched, <<"code", data[1]>>)
    /\ Leave(t, Val(data))
    /\ UNCHANGED <<flow, session, sessions, locked, waiters, refresh_token,
                   client_secret, log, issued>>

\* The device-code request failed: its error leaves get_device_code.
get_device_code_error(t) ==
    /\ Suspended(t, "get_device_code", "wait")
    /\ Leave(t, Exc("BadRequest", ""))
    /\ UNCHANGED <<flow, session, sessions, locked, waiters, refresh_token,
                   client_secret, log, dispatched, issued>>

\* data = await self._http.poll_for_token(device_code, expires_in=..., interval=...)
poll_for_authorization_send(t) ==
    /\ At(t, "poll_for_authorization", "start")
    /\ Goto(t, "polling")
    /\ Suspend(t)
    /\ UNCHANGED <<flow, session, sessions, locked, waiters, refresh_token,
                   client_secret, log, dispatched, issued>>

\* poll_for_token: the provider answers "not yet authorized"; the next poll
\* is interval seconds later, within expires_in seconds in total.
poll_for_token_pending(t) ==
    /\ Suspended(t, "poll_for_authorization", "polling")
    /\ Top(t).elapsed_time + Top(t).interval <= Top(t).expires_in
    /\ stack' = [stack EXCEPT ![t] = SetTop(@,
          [Top(t) EXCEPT !.elapsed_time = @ + Top(t).interval])]
    /\ UNCHANGED <<flow, session, sessions, locked, waiters, refresh_token,
                   client_secret, ret, results, prog, cur, log, dispatched, issued>>

\* self._client.dispatch('auth', data['access_token'], data['refresh_token'])
\* return data['access_token'], data['refresh_token']
poll_for_authorization_return(t, pair) ==
    /\ Suspended(t, "poll_for_authorization", "polling")
    /\ dispatched' = Append(dispatched, <<"auth", pair[1], pair[2]>>)
    /\ Leave(t, Val(pair))
    /\ UNCHANGED <<flow, session, sessions, locked, waiters, refresh_token,
                   client_secret, log, issued>>

\* poll_for_token fails: the user denied, or the device code expired.
poll_for_token_denied(t) ==
    /\ Suspended(t, "poll_for_authorization", "polling")
    /\ Leave(t, Exc("AccessDenied", ""))
    /\ UNCHANGED <<flow, session, sessions, locked, waiters, refresh_token,
                   client_secret, log, dispatched, issued>>

poll_for_token_expired(t) ==
    /\ Suspended(t, "poll_for_authorization", "polling")
    /\ Top(t).elapsed_time + Top(t).interval > Top(t).expires_in
    /\ Leave(t, Exc("ExpiredToken", ""))
    /\ UNCHANGED <<flow, session, sessions, locked, waiters, refresh_token,
                   client_secret, log, dispatched, issued>>

\* runner: async with self: ... = await self.get_device_code()
runner_enter(t) ==
    /\ At(t, "runner", "start")
    /\ Push(t, [Top(t) EXCEPT !.pc = "code"], Frame("get_device_code"))
    /\ Stay(t)
    /\ UNCHANGED <<flow, session, sessions, locked, waiters, refresh_token,
                   client_secret, log, dispatched, issued>>

\* access_token, refresh_token = await self.poll_for_authorization(
\*     device_code, expires_in, interval)
runner_poll(t) ==
    /\ At(t, "runner", "code")
    /\ Returned(t)
    /\ Push(t, [Top(t) EXCEPT !.pc = "polling"],
            [Frame("poll_for_authorization") EXCEPT
                !.device_code = ret[t].val[2],
                !.expires_in = ret[t].val[3],
                !.interval = ret[t].val[4]])
    /\ Stay(t)
    /\ UNCHANGED <<flow, session, sessions, locked, waiters, refresh_token,
                   client_secret, log, dispatched, issued>>

\* __aexit__ of async with self: await self.close(), after the body
\* returned the token pair
runner_exit(t) ==
    /\ At(t, "runner", "polling")
    /\ Returned(t)
    /\ flow' = [flow EXCEPT !.closed = TRUE]
    /\ stack' = [stack EXCEPT ![t] = SetTop(@,
          [Top(t) EXCEPT !.pc = "closed", !.access_token = ret[t].val[1],
                         !.rtoken = ret[t].val[2]])]
    /\ Suspend(t)
    /\ UNCHANGED <<session, sessions, locked, waiters, refresh_token,
                   client_secret, log, dispatched, issued>>

\* __aexit__ of async with self: await self.close(), after the body
\* raised; the exception leaves runner
runner_failed_open(t) ==
    /\ \/ At(t, "runner", "code")
       \/ At(t, "runner", "polling")
    /\ Raised(t)
    /\ Leave(t, ret[t])
    /\ UNCHANGED <<flow, session, sessions, locked, waiters, refresh_token,
                   client_secret, log, dispatched, issued>>
runner_failed(t) ==
    /\ \/ At(t, "runner", "code")
       \/ At(t, "runner", "polling")
    /\ Raised(t)
    /\ flow' = [flow EXCEPT !.closed = TRUE]
    /\ Leave(t, ret[t])
    /\ UNCHANGED <<session, sessions, locked, waiters, refresh_token,
                   client_secret, log, dispatched, issued>>

\* async with self._client:
\*     await self._client.start(access_token, refresh_token, ...)
runner_start_client(t) ==
    /\ Suspended(t, "runner", "closed")
    /\ flow' = [flow EXCEPT !.started =
                   Append(@, <<Top(t).access_token, Top(t).rtoken>>)]
    /\ Leave(t, Val(None))
    /\ UNCHANGED <<session, sessions, locked, waiters, refresh_token,
                   client_secret, log, dispatched, issued>>

---------------------------------------------------------------------------
(* Tasks and their top-level calls. *)

OpenCall(access_token) == [Frame("_open") EXCEPT !.access_token = access_token]
OpenSessionCall(access_token, rtoken) ==
    [Frame("open_session") EXCEPT !.access_token = access_token, !.rtoken = rtoken]
RequestCall(route) == [Frame("request") EXCEPT !.route = route]
ValidateCall(generate) == [Frame("_validate_token") EXCEPT !.generate = generate]
GenerateCall == Frame("_generate_token")
CloseCall == Frame("close")
AccessorCall(fn) == Frame(fn)
RunnerCall == Frame("runner")
GetDeviceCodeCall == Frame("get_device_code")
PollCall(grant) ==
    [Frame("poll_for_authorization") EXCEPT
        !.device_code = grant[2], !.expires_in = grant[3], !.interval = grant[4]]
SubscribeCall(count) == [Frame("subscribe") EXCEPT !.count = count]
RefresherCall(expires_in) == [Frame("Refresher") EXCEPT !.expires_in = expires_in]

\* The task makes its next top-level call; log holds the requests of that call.
Start(t) ==
    /\ cur \in {NoTask, t}
    /\ stack[t] = <<>>
    /\ prog[t] # <<>>
    /\ stack' = [stack EXCEPT ![t] = <<Head(prog[t])>>]
    /\ prog' = [prog EXCEPT ![t] = Tail(@)]
    /\ log' = [log EXCEPT ![t] = <<>>]
    /\ cur' = t
    /\ UNCHANGED <<flow, session, sessions, locked, waiters, refresh_token,
                   client_secret, ret, results, dispatched, issued>>

\* HTTPClient.__init__
InitClient ==
    /\ session = 0
    /\ sessions = <<>>
    /\ locked = FALSE
    /\ waiters = <<>>
    /\ refresh_token = NoToken
    /\ client_secret \in BOOLEAN
    /\ stack = [t \in Tasks |-> <<>>]
    /\ ret = [t \in Tasks |-> NoRet]
    /\ results = [t \in Tasks |-> <<>>]
    /\ cur = NoTask
    /\ log = [t \in Tasks |-> <<>>]
    /\ dispatched = <<>>
    /\ issued = 0
    /\ flow = [closed |-> FALSE, started |-> <<>>]

Idle == [t \in Tasks |-> <<>>]

---------------------------------------------------------------------------
(* SpecClassify: one task opens a session and calls _request once; the    *)
(* provider answers with any status of MinStatus..MaxStatus.              *)

InitClassify ==
    /\ InitClient
    /\ prog = [Idle EXCEPT ![1] = <<OpenCall(1), RequestFrame("api")>>]

NextClassify ==
    \/ \E t \in Tasks : Start(t)
    \/ \E t \in Tasks : _open_enter(t)
    \/ \E t \in Tasks : _request_send(t)
    \/ \E t \in Tasks, status \in MinStatus .. MaxStatus : _request_response(t, status)
    \/ \E t \in Tasks : _request_oserror(t)
    \/ \E t \in Tasks : _request_next(t)

SpecClassify == InitClassify /\ [][NextClassify]_vars

---------------------------------------------------------------------------
(* Spec: one task opens a session with open_session and then makes one    *)
(* call of the request pipeline.                                          *)

RefreshToken == 7

Pipeline(t) ==
    \/ Start(t)
    \/ _open_enter(t)
    \/ _request_send(t)
    \/ \E status \in Statuses : _request_response(t, status)
    \/ _request_oserror(t)
    \/ _request_next(t)
    \/ request_send(t)
    \/ request_return(t)
    \/ request_unauthorized(t)
    \/ request_error(t)
    \/ request_validated(t)
    \/ request_reraise(t)
    \/ _validate_token_send(t)
    \/ _validate_token_return(t)
    \/ _validate_token_generate(t)
    \/ _validate_token_raise(t)
    \/ _validate_token_error(t)
    \/ _validate_token_generated(t)
    \/ _validate_token_refresh_failed(t)
    \/ _generate_token_skip(t)
    \/ _generate_token_enter(t)
    \/ _generate_token_done(t)
    \/ _generate_token_failed(t)
    \/ open_session_open(t)
    \/ open_session_validate(t)
    \/ open_session_return(t)
    \/ open_session_error(t)

SecondCalls ==
    {<<>>, <<RequestCall("api")>>, <<ValidateCall(TRUE)>>,
     <<ValidateCall(FALSE)>>, <<GenerateCall>>}

Init ==
    /\ InitClient
    /\ \E rtoken \in {NoToken, RefreshToken}, calls \in SecondCalls :
          prog = [Idle EXCEPT ![1] = <<OpenSessionCall(1, rtoken)>> \o calls]

Next == \E t \in Tasks : Pipeline(t)

Spec == Init /\ [][Next]_vars

---------------------------------------------------------------------------
(* Claims on _request (SpecClassify). *)

\* The k-th top-level call of t has ended.
Ended(t, k) == Len(results[t]) >= k
\* The last request of t's current top-level call has been answered.
Answered(t) == log[t] # <<>> /\ LastLog(t).status \notin {Pending, OSErr}

\* The outcome the classification table gives for a status.
TableOutcome(status) ==
    CASE status \in {200, 202} -> "ok"
      [] status = 400 -> "BadRequest"
      [] status = 401 -> "Unauthorized"
      [] status = 403 -> "Forbidden"
      [] status = 404 -> "NotFound"
      [] status \in 500 .. 599 -> "TwitchServerError"
      [] OTHER -> "UnknownError"

\* out is the outcome the table gives for the answer e.
OutcomeOf(e, out) ==
    IF TableOutcome(e.status) = "ok"
    THEN out.kind = "val" /\ out.val = e.body /\ e.body # None
    ELSE out.kind = "exc" /\ out.err = TableOutcome(e.status)

\* C1: every answered call of _request has ended with exactly the outcome
\* the table gives for the status: the parsed body for 200 and 202,
\* BadRequest for 400, Unauthorized for 401, Forbidden for 403, NotFound for
\* 404, TwitchServerError for 500..599 and UnknownError for any other status.
C1_Classification ==
    \A t \in Tasks :
        Answered(t) =>
            /\ Ended(t, 2)
            /\ results[t][2].frame.fn = "_request"
            /\ OutcomeOf(LastLog(t), results[t][2].out)

C1_Witness ==
    \E t \in Tasks :
        /\ Ended(t, 2)
        /\ Answered(t)
        /\ LastLog(t).status = 599
        /\ results[t][2].out.err = "TwitchServerError"

\* C6: one call of _request sends at most 3 times; the k-th send that fails
\* with OSError is followed by a sleep of 5*k seconds; only a failed send is
\* followed by another send; a call that ends after an answer ends with the
\* answer's classification, and a call whose 3 sends all failed ends with
\* HTTPException, which no other call ends with.
C6_TransportRetry ==
    \A t \in Tasks :
        LET n == Len(log[t]) IN
        /\ n <= 3
        /\ \A k \in 1 .. n :
              /\ log[t][k].status = OSErr => log[t][k].sleep = 5 * k
              /\ log[t][k].status # OSErr => log[t][k].sleep = 0
              /\ k < n => log[t][k].status = OSErr
        /\ Ended(t, 2) =>
              /\ n >= 1
              /\ IF LastLog(t).status = OSErr
                 THEN /\ n = 3
                      /\ results[t][2].out.kind = "exc"
                      /\ results[t][2].out.err = "HTTPException"
                 ELSE OutcomeOf(LastLog(t), results[t][2].out)

C6_Witness ==
    \E t \in Tasks :
        /\ Ended(t, 2)
        /\ Len(log[t]) = 3
        /\ \A k \in 1 .. 3 : log[t][k].status = OSErr /\ log[t][k].sleep = 5 * k
        /\ results[t][2].out.err = "HTTPException"

---------------------------------------------------------------------------
(* Claims on request, _validate_token, _generate_token and open_session   *)
(* (Spec).  log[t] holds the requests of t's current top-level call, or   *)
(* of its last one when it has ended.                                     *)

NoCall == Frame("none")
\* The frame of t's current top-level call, or of its last one.
CallFrame(t) ==
    IF stack[t] # <<>> THEN stack[t][1]
    ELSE IF results[t] # <<>> THEN results[t][Len(results[t])].frame
    ELSE NoCall
CallEnded(t) == stack[t] = <<>> /\ results[t] # <<>>
Outcome(t) == results[t][Len(results[t])].out

\* t's current or last top-level call is request on the helix route.
ApiCall(t) == CallFrame(t).fn = "request" /\ CallFrame(t).route = "api"
ApiSends(t) == {k \in 1 .. Len(log[t]) : log[t][k].route = "api"}
OkStatus(e) == e.status \in {200, 202}
\* The depth of the stack when a top-level request validates: request,
\* _validate_token, _request.
OwnValidation(e) == e.route = "validate" /\ e.depth = 3

\* C2: in a call of request whose first send is answered 401 and whose
\* second send of the route is answered 200 or 202, the second send follows
\* a successful validation, the route is sent exactly twice and nothing after
\* it, and the call ends with the body of the second answer; and request
\* never ends on a successful validation of its own without sending the
\* route again.
C2_SelfHealing ==
    \A t \in Tasks :
        ApiCall(t) =>
            /\ \A j \in ApiSends(t) :
                  ( /\ log[t][1].route = "api"
                    /\ log[t][1].status = 401
                    /\ ApiSends(t) \cap (1 .. j) = {1, j}
                    /\ j > 1
                    /\ OkStatus(log[t][j]) ) =>
                        /\ OwnValidation(log[t][j - 1])
                        /\ OkStatus(log[t][j - 1])
                        /\ j = Len(log[t])
                        /\ ApiSends(t) = {1, j}
                        /\ CallEnded(t) =>
                              /\ Outcome(t).kind = "val"
                              /\ Outcome(t).val = log[t][j].body
            /\ ( /\ CallEnded(t)
                 /\ log[t] # <<>>
                 /\ OwnValidation(LastLog(t)) ) => ~OkStatus(LastLog(t))

\* The recovery went through a token exchange.
C2_Witness ==
    \E t \in Tasks :
        /\ ApiCall(t)
        /\ CallEnded(t)
        /\ Len(log[t]) = 5
        /\ log[t][1].route = "api" /\ log[t][1].status = 401
        /\ log[t][2].route = "validate" /\ log[t][2].status = 401
        /\ log[t][3].route = "token" /\ log[t][3].status = 200
        /\ log[t][4].route = "validate" /\ log[t][4].status = 200
        /\ log[t][5].route = "api" /\ log[t][5].status = 202
        /\ Outcome(t).kind = "val"
        /\ Outcome(t).val = log[t][5].body

\* The requests of the recovery that ended t's call of request: those
\* after the last send of the route.
LastApi(t) == CHOOSE k \in ApiSends(t) : \A j \in ApiSends(t) : j <= k
\* t's call of request ended in the recovery from a 401: the last send of
\* the route was answered 401 and the requests after it are the recovery's.
RecoveryFailed(t) ==
    /\ ApiCall(t)
    /\ CallEnded(t)
    /\ Outcome(t).kind = "exc"
    /\ ApiSends(t) # {}
    /\ log[t][LastApi(t)].status = 401
    /\ LastApi(t) < Len(log[t])

\* C3 as claimed: when the recovery from a 401 fails with Unauthorized or
\* BadRequest, the caller of request gets Unauthorized.
C3_Original ==
    \A t \in Tasks :
        (RecoveryFailed(t) /\ Outcome(t).err \in {"Unauthorized", "BadRequest"})
            => Outcome(t).err = "Unauthorized"

\* C3, amended: when the recovery from a 401 fails with Unauthorized or
\* BadRequest, the caller of request gets the error the recovery raised:
\* BadRequest when the validation endpoint answered 400 to request's own
\* validation, and Unauthorized otherwise: without a message when the
\* validation endpoint answered 401 and the credentials are not both
\* present, with the message 'Invalid refresh token or client secret.' when
\* the token exchange was rejected with 400 or 403.  The requests after the
\* last send of the route begin with request's validation.
C3_RecoveryError ==
    \A t \in Tasks :
        (RecoveryFailed(t) /\ Outcome(t).err \in {"Unauthorized", "BadRequest"}) =>
            /\ OwnValidation(log[t][LastApi(t) + 1])
            /\ IF OwnValidation(LastLog(t)) /\ LastLog(t).status = 400
               THEN Outcome(t).err = "BadRequest"
               ELSE /\ Outcome(t).err = "Unauthorized"
                    /\ OwnValidation(LastLog(t)) =>
                          /\ LastLog(t).status = 401
                          /\ Outcome(t).msg = ""
                          /\ ~(refresh_token # NoToken /\ client_secret)
                    /\ (LastLog(t).route = "token" /\ LastLog(t).status \in {400, 403}) =>
                          Outcome(t).msg = "Invalid refresh token or client secret."

\* The validation endpoint answered 400 to request's own validation.
C3_Witness ==
    \E t \in Tasks :
        /\ RecoveryFailed(t)
        /\ Len(log[t]) = 2
        /\ log[t][2].route = "validate"
        /\ log[t][2].status = 400
        /\ Outcome(t).err = "BadRequest"

\* C4 as claimed: one call of request validates at most once and sends the
\* route at most twice.
C4_Original ==
    \A t \in Tasks :
        ApiCall(t) =>
            /\ CallFrame(t).nvalid <= 1
            /\ Cardinality({k \in ApiSends(t) : log[t][k].status # OSErr}) <= 2

\* The error the table gives for an answer that is neither a success nor 401.
Failure(e) ==
    /\ e.status \notin {Pending, OSErr, 200, 202, 401}
\* The last request of t's call of request is a send of the route that was
\* answered with a failure other than 401.
ApiFailed(t) ==
    /\ ApiCall(t)
    /\ log[t] # <<>>
    /\ LastLog(t).route = "api"
    /\ Failure(LastLog(t))

\* C5: once a send of the route is answered with a status other than 200,
\* 202 and 401, request sends nothing more (no re-send, no validation, no
\* exchange), leaves the session, its Authorization header and the stored
\* refresh token as they are, and raises the error of that status; and no
\* request follows such an answer in the log.
C5_NoRetry ==
    [][\A t \in Tasks :
          /\ ApiFailed(t) =>
                /\ log' = log
                /\ session' = session
                /\ sessions' = sessions
                /\ refresh_token' = refresh_token
                /\ dispatched' = dispatched
                /\ CallEnded(t)' =>
                      /\ Outcome(t)'.kind = "exc"
                      /\ Outcome(t)'.err = TableOutcome(LastLog(t).status)
                      /\ Outcome(t)'.err \in {"BadRequest", "Forbidden", "NotFound",
                                              "TwitchServerError", "UnknownError"}
          /\ ApiCall(t)' =>
                \A k \in ApiSends(t)' : Failure(log'[t][k]) => k = Len(log'[t])
      ]_vars

C5_Witness ==
    \E t \in Tasks :
        /\ ApiFailed(t)
        /\ CallEnded(t)
        /\ Len(log[t]) = 1
        /\ LastLog(t).status = 500
        /\ Outcome(t).err = "TwitchServerError"

\* Both credentials are present.
BothPresent == refresh_token # NoToken /\ client_secret = TRUE
TokenSends(t) == {k \in 1 .. Len(log[t]) : log[t][k].route = "token"}
ValidateCallOf(t) == CallFrame(t).fn = "_validate_token"

\* C7 as claimed: one call of _validate_token(generate=True) with both
\* credentials calls _generate_token at most once; and when the exchange is
\* rejected with 400 or 403 the call raises Unauthorized with the message
\* 'Invalid refresh token or client secret.'.
C7_Original ==
    \A t \in Tasks :
        (ValidateCallOf(t) /\ CallFrame(t).generate /\ BothPresent) =>
            /\ CallFrame(t).ngen <= 1
            /\ ( /\ CallEnded(t)
                 /\ log[t] # <<>>
                 /\ LastLog(t).route = "token"
                 /\ LastLog(t).status \in {400, 403} ) =>
                    /\ Outcome(t).err = "Unauthorized"
                    /\ Outcome(t).msg = "Invalid refresh token or client secret."

\* t sends a token exchange in this step.
SendsExchange(t) ==
    /\ Len(log'[t]) = Len(log[t]) + 1
    /\ log'[t][Len(log'[t])].route = "token"

LegacyToken(t) ==
    /\ Ended(t, 1)
    /\ results[t][1].frame.fn = "open_session"
    /\ results[t][1].out.kind = "val"
    /\ results[t][1].out.val = 0

\* C9 as claimed: once open_session has returned a validation whose
\* expires_in is 0, the stored refresh token is None and no later call
\* sends a token exchange.
C9_Original ==
    \A t \in Tasks :
        LegacyToken(t) =>
            /\ refresh_token = NoToken
            /\ (Ended(t, 2) \/ stack[t] # <<>>) => TokenSends(t) = {}

---------------------------------------------------------------------------
(* SpecSession: three tasks call _open, close and open_session on one     *)
(* client, in any interleaving their suspension points allow.             *)

SessionStatuses == {200, 400, 401}

InitSession ==
    /\ InitClient
    /\ \E first \in {<<OpenCall(2), CloseCall>>, <<CloseCall, OpenCall(2)>>,
                      <<CloseCall, CloseCall>>},
          second \in {<<OpenCall(3)>>, <<CloseCall>>} :
          prog = [Idle EXCEPT ![1] = <<OpenSessionCall(1, RefreshToken)>>,
                              ![2] = first, ![3] = second]

Lifecycle(t) ==
    \/ Start(t)
    \/ _open_enter(t)
    \/ _open_queue(t)
    \/ _open_wakeup(t)
    \/ close_enter(t)
    \/ close_queue(t)
    \/ close_wakeup(t)
    \/ close_done(t)
    \/ _request_send(t)
    \/ \E status \in SessionStatuses : _request_response(t, status)
    \/ request_send(t)
    \/ request_return(t)
    \/ request_unauthorized(t)
    \/ request_error(t)
    \/ request_validated(t)
    \/ request_reraise(t)
    \/ _validate_token_send(t)
    \/ _validate_token_return(t)
    \/ _validate_token_generate(t)
    \/ _validate_token_raise(t)
    \/ _validate_token_error(t)
    \/ _validate_token_generated(t)
    \/ _validate_token_refresh_failed(t)
    \/ _generate_token_skip(t)
    \/ _generate_token_enter(t)
    \/ _generate_token_queue(t)
    \/ _generate_token_wakeup(t)
    \/ _generate_token_done(t)
    \/ _generate_token_failed(t)
    \/ open_session_open(t)
    \/ open_session_validate(t)
    \/ open_session_return(t)
    \/ open_session_error(t)

NextSession == \E t \in Tasks : Lifecycle(t)

SpecSession == InitSession /\ [][NextSession]_vars

---------------------------------------------------------------------------
(* Claims on the session lifecycle (SpecSession). *)

\* The sessions that were created and are not closed.
LiveSessions == {i \in 1 .. Len(sessions) : ~sessions[i].closed}

\* C10: every session ever created is the client's current session or is
\* closed, so at most one is live; a session is created only by a task in
\* _open and only while no session is live, it is a new instance, it
\* becomes the current session and its Authorization header is 'Bearer'
\* with the access token of that _open call; the current session is never
\* replaced by an older instance.
C10_OneLiveSession ==
    [][/\ LiveSessions' \subseteq {session'}
       /\ Len(sessions') # Len(sessions) =>
             /\ LiveSessions = {}
             /\ Len(sessions') = Len(sessions) + 1
             /\ session' = Len(sessions')
             /\ \A i \in 1 .. Len(sessions) : sessions'[i] = sessions[i]
             /\ \E t \in Tasks :
                   /\ stack[t] # <<>>
                   /\ Top(t).fn = "_open"
                   /\ stack'[t] = Pop(stack[t])
                   /\ sessions'[session'] =
                         [closed |-> FALSE, auth |-> <<"Bearer", Top(t).access_token>>]
       /\ session' # session => session' \in {0, Len(sessions) + 1}
      ]_vars

\* After _open by task 1 and a close, _open by task 2 has created a second
\* session, while task 3's _open has created none.
C10_Witness ==
    /\ \A t \in Tasks : stack[t] = <<>> /\ prog[t] = <<>>
    /\ results[3][1].frame.fn = "_open"
    /\ Len(sessions) = 2
    /\ sessions[1].closed
    /\ session = 2
    /\ sessions[2] = [closed |-> FALSE, auth |-> <<"Bearer", 2>>]

\* t is in a call of fn, and the call ends in this step.
Ends(t, fn) ==
    /\ stack[t] # <<>>
    /\ Top(t).fn = fn
    /\ stack'[t] = Pop(stack[t])
\* t is in a call of fn and takes a step of it.
Steps(t, fn) ==
    /\ stack[t] # <<>>
    /\ Top(t).fn = fn
    /\ stack'[t] # stack[t]

\* C11: every call of close that ends returns True (never raises) and
\* leaves is_open false, whether the client was open, closed or never
\* opened; a step of close taken while the session is not open, and that
\* has no session to drop, changes neither the session nor any session
\* object; a step of _open taken while the session is open creates no
\* session and leaves the session object and its Authorization header as
\* they are, whatever access_token the call was given.
C11_Idempotent ==
    [][\A t \in Tasks :
          /\ Ends(t, "close") =>
                /\ results'[t][Len(results'[t])].out = [kind |-> "val", val |-> 1,
                                                       err |-> "", msg |-> ""]
                /\ ~is_open'
          /\ (Steps(t, "close") /\ ~is_open /\ Top(t).pc # "closing") =>
                /\ session' = session
                /\ sessions' = sessions
          /\ (Steps(t, "_open") /\ is_open) =>
                /\ session' = session
                /\ sessions' = sessions
      ]_vars

\* Task 2 has called close twice on the never-opened client, and then one
\* of the two _open calls (access tokens 1 and 3) found the session open.
C11_Witness ==
    /\ Len(results[2]) = 2
    /\ \A k \in 1 .. 2 : /\ results[2][k].frame.fn = "close"
                         /\ results[2][k].out.val = 1
    /\ Len(results[3]) = 1
    /\ results[3][1].frame.fn = "_open"
    /\ stack[1] # <<>>
    /\ stack[1][1].pc = "validating"
    /\ Len(sessions) = 1
    /\ is_open
    /\ sessions[1].auth = <<"Bearer", 3>>

---------------------------------------------------------------------------
(* SpecRefresh: task 1 opens the session with an access token that the    *)
(* provider validates, and then runs the Refresher; task 2 calls request   *)
(* on the helix route meanwhile.  No coroutine of this specification waits *)
(* for the session lock: _generate_token is the only one that takes it     *)
(* after _open, and it takes it only when it is free.                      *)

RefreshStatuses == {200, 400, 401}
\* The expires_in the Refresher is started with.  The client has a secret:
\* the credentials are complete when open_session was given a refresh token.
ExpiresAtStart == {0, 14400}

InitRefresh ==
    /\ InitClient
    /\ client_secret
    /\ \E rtoken \in {NoToken, RefreshToken}, expires_in \in ExpiresAtStart :
          prog = [t \in Tasks |->
                     IF t = 1
                     THEN <<OpenSessionCall(1, rtoken), RefresherCall(expires_in)>>
                     ELSE IF t = 2 THEN <<RequestCall("api")>>
                     ELSE <<>>]

\* The callers of request start once open_session has ended.
StartOpened(t) ==
    /\ t = 1 \/ results[1] # <<>>
    /\ Start(t)

Refreshing(t) ==
    \/ StartOpened(t)
    \/ _open_enter(t)
    \/ _request_send(t)
    \/ \E status \in RefreshStatuses :
          /\ CallFrame(t).fn = "open_session" => status = 200
          /\ _request_response(t, status)
    \/ request_send(t)
    \/ request_return(t)
    \/ request_unauthorized(t)
    \/ request_error(t)
    \/ request_validated(t)
    \/ request_reraise(t)
    \/ _validate_token_send(t)
    \/ _validate_token_return(t)
    \/ _validate_token_generate(t)
    \/ _validate_token_raise(t)
    \/ _validate_token_error(t)
    \/ _validate_token_generated(t)
    \/ _validate_token_refresh_failed(t)
    \/ _generate_token_skip(t)
    \/ _generate_token_enter(t)
    \/ _generate_token_done(t)
    \/ _generate_token_failed(t)
    \/ open_session_open(t)
    \/ open_session_validate(t)
    \/ open_session_return(t)
    \/ Refresher_start(t)
    \/ Refresher_sleep(t)
    \/ \E delay \in Delays : Refresher_wake(t, delay)
    \/ Refresher_generated(t)
    \/ Refresher_validated(t)
    \/ Refresher_badrequest(t)
    \/ Refresher_error(t)

\* The calls under way have sent at most MaxSent requests between them.
NextRefresh ==
    \E t \in Tasks :
        /\ Refreshing(t)
        /\ Len(log'[1]) + Len(log'[2]) <= MaxSent

SpecRefresh == InitRefresh /\ [][NextRefresh]_vars

---------------------------------------------------------------------------
(* Claims on the Refresher and concurrent refreshes (SpecRefresh). *)

\* The tasks whose token exchange is in flight.
InFlight ==
    {t \in Tasks : /\ log[t] # <<>>
                   /\ LastLog(t).route = "token"
                   /\ LastLog(t).status = Pending}

\* t is at the lock check of _generate_token, with both credentials.
AtLockCheck(t) ==
    /\ stack[t] # <<>>
    /\ Top(t).fn = "_generate_token"
    /\ Top(t).pc = "start"
    /\ HasCredentials

\* C12: at most one token exchange is in flight, and the session lock is
\* held while it is; a call of _generate_token that finds the lock held
\* ends in that step, returns None and sends nothing; and the lock is taken
\* only in the step in which _generate_token found it free, so that no
\* other task takes it between the check and the acquisition.
C12_OneExchangeInFlight ==
    [][/\ Cardinality(InFlight') <= 1
       /\ InFlight' # {} => locked'
       /\ \A t \in Tasks :
             /\ (AtLockCheck(t) /\ locked /\ stack'[t] # stack[t]) =>
                   /\ stack'[t] = Pop(stack[t])
                   /\ ret'[t] = [kind |-> "val", val |-> None, err |-> "", msg |-> ""]
                   /\ log' = log
                   /\ locked'
             /\ (AtLockCheck(t) /\ ~locked /\ stack'[t] # stack[t]) =>
                   /\ locked'
                   /\ Top(t)'.fn = "request"
                   /\ Top(t)'.route = "token"
       /\ (~locked /\ locked') => \E t \in Tasks : AtLockCheck(t) /\ stack'[t] # stack[t]
      ]_vars

\* The Refresher has found the lock held by the exchange of task 2, and
\* _generate_token has returned None to it.
C12_Witness ==
    /\ InFlight = {2}
    /\ locked
    /\ cur = 1
    /\ stack[1] # <<>>
    /\ Top(1).fn = "Refresher"
    /\ Top(1).pc = "generating"
    /\ HasCredentials
    /\ ret[1] = [kind |-> "val", val |-> None, err |-> "", msg |-> ""]

\* Task 1 runs the Refresher and task 2 a call of request whose first send
\* has left; the access token of that send is the expired one.
BothRefreshing ==
    /\ CallFrame(1).fn = "Refresher"
    /\ ApiCall(2)
    /\ log[2] # <<>>
ExpiredAuth == log[2][1].auth
\* The provider is consistent: it answers 401 to a request that carries the
\* expired access token and 200 to any other, and accepts every exchange.
ConsistentAnswer(e) ==
    \/ e.status = Pending
    \/ e.route = "token" /\ e.status = 200
    \/ e.route # "token" /\ e.auth = ExpiredAuth /\ e.status = 401
    \/ e.route # "token" /\ e.auth # ExpiredAuth /\ e.status = 200
ConsistentProvider ==
    \A t \in {1, 2} : \A k \in 1 .. Len(log[t]) : ConsistentAnswer(log[t][k])
\* The Refresher's exchanges left while the expired token was the current one.
RefresherExchangedExpired ==
    \A k \in TokenSends(1) : log[1][k].auth = ExpiredAuth

\* C13 as claimed: when the Refresher and a call of request both refresh
\* the same expired access token, a consistent provider receives at most one
\* token exchange from the two of them.
C13_Original ==
    (BothRefreshing /\ ConsistentProvider /\ RefresherExchangedExpired) =>
        Cardinality(TokenSends(1)) + Cardinality(TokenSends(2)) <= 1

\* The exchange of t has succeeded and _generate_token takes its next step.
ExchangeSucceeded(t) ==
    /\ stack[t] # <<>>
    /\ Top(t).fn = "_generate_token"
    /\ Top(t).pc = "exchanging"
    /\ ret[t].kind = "val"
    /\ stack'[t] # stack[t]
\* t sends a request in this step.
Sends(t) == Len(log'[t]) = Len(log[t]) + 1

\* C14: the step of _generate_token that follows a successful exchange,
\* still holding the lock, sets the Authorization header of the existing
\* session to 'Bearer' with the new access token, dispatches 'refresh_token'
\* with it once, keeps the session object and the stored refresh token, and
\* releases the lock; the header changes in no other step; and every
\* request sent once a token has been dispatched carries the access token
\* dispatched last, which is the newest the provider has issued.
C14_HeaderUpdated ==
    [][/\ \A t \in Tasks :
             /\ ExchangeSucceeded(t) =>
                   /\ locked /\ ~locked'
                   /\ session' = session
                   /\ Len(sessions') = Len(sessions)
                   /\ sessions'[session] =
                         [closed |-> sessions[session].closed,
                          auth |-> <<"Bearer", ret[t].val>>]
                   /\ dispatched' = Append(dispatched, <<"refresh_token", ret[t].val>>)
                   /\ ret[t].val = 100 + issued
                   /\ refresh_token' = refresh_token
                   /\ stack'[t] = Pop(stack[t])
                   /\ ret'[t] = ret[t]
             /\ (Sends(t) /\ dispatched # <<>>) =>
                   /\ log'[t][Len(log'[t])].auth =
                         <<"Bearer", dispatched[Len(dispatched)][2]>>
                   /\ dispatched[Len(dispatched)][2] = 100 + Len(dispatched)
                   /\ issued - Len(dispatched) \in {0, 1}
       /\ (session # 0 /\ sessions' # sessions) =>
             \E t \in Tasks : ExchangeSucceeded(t)
       /\ dispatched' # dispatched => \E t \in Tasks : ExchangeSucceeded(t)
      ]_vars

\* The Refresher has exchanged the token while task 2 recovered from a 401,
\* and task 2 has sent the route again with the new access token.
C14_Witness ==
    /\ dispatched = << <<"refresh_token", 101>> >>
    /\ TokenSends(1) # {}
    /\ Len(log[2]) = 3
    /\ log[2][1].auth = <<"Bearer", 1>>
    /\ log[2][3].route = "api"
    /\ log[2][3].auth = <<"Bearer", 101>>
    /\ refresh_token = RefreshToken

\* t runs the Refresher, or ran it last.
RefresherOf(t) == CallFrame(t).fn = "Refresher"

\* C15 as claimed: no call of the Refresher ever ends, whatever the provider
\* answers.
C15_Original ==
    \A t \in Tasks :
        \A k \in 1 .. Len(results[t]) : results[t][k].frame.fn # "Refresher"

\* BadRequest has reached the Refresher's try, and the Refresher takes its
\* next step.
BadRequestInRefresher(t) ==
    /\ stack[t] # <<>>
    /\ Top(t).fn = "Refresher"
    /\ ret[t].kind = "exc"
    /\ ret[t].err = "BadRequest"
    /\ stack'[t] # stack[t]

\* C16: the step of the Refresher that follows a BadRequest of its
\* iteration sets the stored refresh token to None and puts the Refresher
\* back at the head of its loop, with its expires_in as it was; from then on
\* the stored refresh token stays None (open_session is not called again)
\* and the Refresher sends no token exchange.
C16_RefreshDisabled ==
    [][\A t \in Tasks :
          /\ BadRequestInRefresher(t) =>
                /\ refresh_token' = NoToken
                /\ Len(stack'[t]) = 1
                /\ Top(t)'.fn = "Refresher"
                /\ Top(t)'.pc = "loop"
                /\ Top(t)'.expires_in = Top(t).expires_in
                /\ results' = results
          /\ (RefresherOf(t) /\ CallFrame(t).disabled) =>
                /\ refresh_token = NoToken
                /\ refresh_token' = NoToken
                /\ ~SendsExchange(t)
      ]_vars

\* The exchange of the first iteration was rejected with 400; the Refresher
\* has gone round its loop and sent the validation of its next iteration.
C16_Witness ==
    /\ RefresherOf(1)
    /\ stack[1] # <<>>
    /\ stack[1][1].disabled
    /\ refresh_token = NoToken
    /\ Len(log[1]) = 2
    /\ log[1][1].route = "token"
    /\ log[1][1].status = 400
    /\ log[1][2].route = "validate"

\* C17 as claimed: a Refresher that started without both credentials sends
\* no token exchange and asks for a sleep of 3540 seconds in every iteration.
C17_Original ==
    \A t \in Tasks :
        (RefresherOf(t) /\ CallFrame(t).nocreds) =>
            /\ TokenSends(t) = {}
            /\ CallFrame(t).pc = "sleeping" => CallFrame(t).slept = 3540

\* C18 as claimed: in every iteration the Refresher asks for a sleep of
\* min(expires_in - 300, 3540) seconds, which is at most 3540, and when
\* expires_in is 300 or more the sleep ends no later than 300 seconds
\* before the expiry that the most recent validation reported: the time
\* slept since that report is at most expires_in - 300 (stated here for a
\* Refresher that started with both credentials, whose expires_in is the
\* provider's).
C18_Original ==
    \A t \in Tasks :
        (RefresherOf(t) /\ CallFrame(t).pc = "sleeping") =>
            LET f == CallFrame(t) IN
            /\ f.slept = (IF f.expires_in - 300 <= 3540 THEN f.expires_in - 300 ELSE 3540)
            /\ f.slept <= 3540
            /\ (f.expires_in >= 300 /\ ~f.nocreds) =>
                  f.since + f.slept <= f.expires_in - 300

---------------------------------------------------------------------------
(* SpecSubscribe: one task opens a session and submits a batch of 0 to     *)
(* MaxSubs subscriptions.                                                  *)

SubscribeStatuses == {202, 400, 401, 403, 500}

InitSubscribe ==
    /\ InitClient
    /\ \E count \in 0 .. MaxSubs :
          prog = [Idle EXCEPT ![1] = <<OpenCall(1), SubscribeCall(count)>>]

Subscribing(t) ==
    \/ Start(t)
    \/ _open_enter(t)
    \/ _request_send(t)
    \/ \E status \in SubscribeStatuses : _request_response(t, status)
    \/ request_send(t)
    \/ request_return(t)
    \/ request_unauthorized(t)
    \/ request_error(t)
    \/ request_validated(t)
    \/ request_reraise(t)
    \/ _validate_token_send(t)
    \/ _validate_token_return(t)
    \/ _validate_token_raise(t)
    \/ _validate_token_error(t)
    \/ subscribe_next(t)
    \/ subscribe_submitted(t)
    \/ subscribe_forbidden(t)
    \/ subscribe_badrequest(t)
    \/ subscribe_error(t)

NextSubscribe == \E t \in Tasks : Subscribing(t)

SpecSubscribe == InitSubscribe /\ [][NextSubscribe]_vars

\* t's call of subscribe has ended: with its return, or with the error it
\* raises for a subscription that the provider rejected.
SubscribeEnded(t) ==
    /\ CallFrame(t).fn = "subscribe"
    /\ CallEnded(t)
    /\ \/ Outcome(t).kind = "val"
       \/ Outcome(t).err \in {"SubscriptionError", "Forbidden"}

\* C19 as claimed: when a call of subscribe has ended, every subscription
\* of the batch has been submitted, also those after one that the provider
\* rejected with 400 or 403.
C19_Original ==
    \A t \in Tasks :
        SubscribeEnded(t) => CallFrame(t).index = CallFrame(t).count

\* The 'ready' events dispatched.
Ready == {k \in 1 .. Len(dispatched) : dispatched[k] = <<"ready">>}

\* C20 as claimed: when a call of subscribe has ended, 'ready' has been
\* dispatched exactly once, also when a submission was rejected with 400 or
\* 403, and also for an empty batch.
C20_Original ==
    \A t \in Tasks :
        SubscribeEnded(t) => Cardinality(Ready) = 1

\* The submissions of t's call of subscribe that the provider accepted.
Accepted(t) ==
    {k \in 1 .. Len(log[t]) : log[t][k].route = "eventsub" /\ OkStatus(log[t][k])}
\* The subscription under submission: the one after those accepted.
Submitting(t) == Cardinality(Accepted(t)) + 1

\* C21: a call of subscribe never ends with BadRequest; when the last
\* answer it got is 400 it ends with SubscriptionError, and when it is 403
\* with Forbidden and the message that names a subscription; either error
\* names the subscription whose submission got that answer, which is the
\* one after the subscriptions accepted so far, and the call raises these
\* errors for no other answer.
C21_ErrorNamesSubscription ==
    \A t \in Tasks :
        (CallFrame(t).fn = "subscribe" /\ CallEnded(t)) =>
            /\ Outcome(t).err # "BadRequest"
            /\ (log[t] # <<>> /\ LastLog(t).status = 400) =>
                  /\ Outcome(t).err = "SubscriptionError"
                  /\ Outcome(t).val = Submitting(t)
            /\ (log[t] # <<>> /\ LastLog(t).status = 403) =>
                  /\ Outcome(t).err = "Forbidden"
                  /\ Outcome(t).msg = "Subscription is missing proper authorization"
                  /\ Outcome(t).val = Submitting(t)
            /\ Outcome(t).err \in {"SubscriptionError", "Forbidden"} =>
                  /\ log[t] # <<>>
                  /\ LastLog(t).status = (IF Outcome(t).err = "Forbidden" THEN 403 ELSE 400)
                  /\ Outcome(t).val \in 1 .. CallFrame(t).count

\* Of three subscriptions the first was accepted and the second rejected
\* with 400.
C21_Witness ==
    /\ CallFrame(1).fn = "subscribe"
    /\ CallFrame(1).count = 3
    /\ CallEnded(1)
    /\ Len(log[1]) = 2
    /\ log[1][1].status = 202
    /\ log[1][2].status = 400
    /\ Outcome(1).err = "SubscriptionError"
    /\ Outcome(1).val = 2

---------------------------------------------------------------------------
(* SpecAccess: one task opens a session and calls one of get_client,       *)
(* get_channel and get_stream.                                             *)

InitAccess ==
    /\ InitClient
    /\ \E fn \in Accessors :
          prog = [Idle EXCEPT ![1] = <<OpenCall(1), AccessorCall(fn)>>]

Accessing(t) ==
    \/ Start(t)
    \/ _open_enter(t)
    \/ _request_send(t)
    \/ \E status \in Statuses : _request_response(t, status)
    \/ _request_oserror(t)
    \/ _request_next(t)
    \/ request_send(t)
    \/ request_return(t)
    \/ request_unauthorized(t)
    \/ request_error(t)
    \/ request_validated(t)
    \/ request_reraise(t)
    \/ _validate_token_send(t)
    \/ _validate_token_return(t)
    \/ _validate_token_raise(t)
    \/ _validate_token_error(t)
    \/ get_send(t)
    \/ get_first(t)
    \/ get_stream_return(t)
    \/ get_stream_notfound(t)
    \/ get_error(t)

NextAccess == \E t \in Tasks : Accessing(t)

SpecAccess == InitAccess /\ [][NextAccess]_vars

\* How the accessor's call of request ended, from its last request: with
\* the body of a 200 or 202, or with the error of the last answer
\* (HTTPException when the last send failed as the two before it).
RequestOutcome(t) ==
    IF LastLog(t).status = OSErr THEN "HTTPException"
    ELSE TableOutcome(LastLog(t).status)

\* C22: an accessor that has ended has called request exactly once.
\* get_stream returns None when that call failed with NotFound or returned
\* a list that does not have exactly one element, and data[0] when it has
\* one; get_client and get_channel return data[0] of a list that is not
\* empty; and every other failure of request (for get_client and
\* get_channel NotFound too) reaches the caller as it is.
C22_Accessors ==
    \A t \in Tasks :
        (CallFrame(t).fn \in Accessors /\ CallEnded(t)) =>
            /\ CallFrame(t).count = 1
            /\ log[t] # <<>> =>
                  IF RequestOutcome(t) = "ok"
                  THEN IF CallFrame(t).fn = "get_stream"
                       THEN /\ Outcome(t).kind = "val"
                            /\ Outcome(t).val =
                                  (IF LastLog(t).body = 1 THEN <<"data", 0>> ELSE None)
                       ELSE LastLog(t).body >= 1 =>
                               /\ Outcome(t).kind = "val"
                               /\ Outcome(t).val = <<"data", 0>>
                  ELSE IF CallFrame(t).fn = "get_stream" /\ RequestOutcome(t) = "NotFound"
                       THEN /\ Outcome(t).kind = "val"
                            /\ Outcome(t).val = None
                       ELSE /\ Outcome(t).kind = "exc"
                            /\ Outcome(t).err = RequestOutcome(t)
                            /\ Outcome(t).err \in
                                  {"BadRequest", "Unauthorized", "Forbidden", "NotFound",
                                   "TwitchServerError", "UnknownError", "HTTPException"}

\* get_stream has returned None after a 404.
C22_Witness ==
    /\ CallFrame(1).fn = "get_stream"
    /\ CallEnded(1)
    /\ Len(log[1]) = 1
    /\ LastLog(1).status = 404
    /\ Outcome(1).kind = "val"
    /\ Outcome(1).val = None

---------------------------------------------------------------------------
(* SpecDevice: task 1 runs DeviceAuthFlow.run's runner; task 2 drives the  *)
(* flow by hand, get_device_code and then poll_for_authorization, as       *)
(* examples/advanced_oauth.py does.                                        *)

InitDevice ==
    /\ InitClient
    /\ \E grant \in DeviceGrants :
          prog = [Idle EXCEPT ![1] = <<RunnerCall>>,
                              ![2] = <<GetDeviceCodeCall, PollCall(grant)>>]

Authorizing(t) ==
    \/ Start(t)
    \/ get_device_code_send(t)
    \/ \E data \in DeviceGrants : get_device_code_return(t, data)
    \/ get_device_code_error(t)
    \/ poll_for_authorization_send(t)
    \/ poll_for_token_pending(t)
    \/ \E pair \in TokenPairs : poll_for_authorization_return(t, pair)
    \/ poll_for_token_denied(t)
    \/ poll_for_token_expired(t)
    \/ runner_enter(t)
    \/ runner_poll(t)
    \/ runner_exit(t)
    \/ runner_failed(t)
    \/ runner_start_client(t)

NextDevice == \E t \in Tasks : Authorizing(t)

SpecDevice == InitDevice /\ [][NextDevice]_vars

\* What the call of t that ends in this step hands to its caller.
EndOut(t) ==
    IF Len(stack[t]) > 1 THEN ret'[t] ELSE results'[t][Len(results'[t])].out

---------------------------------------------------------------------------
(* Claims on the Refresher's timer (SpecRefresh). *)

\* The refresh attempt of t's Refresher iteration has ended without a new
\* token: _generate_token returned None (lock held, or a credential
\* absent), or BadRequest reached the Refresher's try.
RefreshNotDone(t) ==
    /\ stack[t] # <<>>
    /\ Len(stack[t]) = 1
    /\ Top(t).fn = "Refresher"
    /\ Top(t).pc = "generating"
    /\ \/ ret[t].kind = "val" /\ ret[t].val = None
       \/ ret[t].kind = "exc" /\ ret[t].err = "BadRequest"

\* C24 as claimed: when the refresh attempt of an iteration was skipped or
\* failed, start_time has kept its previous value, so that the time elapsed
\* since start_time is still what made the iteration attempt the refresh:
\* at least expires_in - 300.
C24_Original ==
    \A t \in Tasks :
        RefreshNotDone(t) => Top(t).elapsed_time >= Top(t).expires_in - 300

---------------------------------------------------------------------------
(* SpecLifetime: one task opens the session with both credentials and     *)
(* runs the Refresher with the expires_in the login validation reported;   *)
(* the provider keeps time: a validation reports the lifetime of a token   *)
(* just issued, or else what the validation before it reported less the    *)
(* time the Refresher slept since, and every sleep returns on time.        *)

\* The lifetimes of the access tokens the provider issues.
Lifetimes == {3600, 14400}
LifetimeStatuses == {200, 400}

\* The request answered before the one in flight was a successful exchange.
JustIssued(t) ==
    /\ Len(log[t]) > 1
    /\ log[t][Len(log[t]) - 1].route = "token"
    /\ log[t][Len(log[t]) - 1].status = 200

\* What the provider answers to the request of t in flight.
Reported(t, status) ==
    IF status # 200 THEN {None}
    ELSE IF Top(t).route = "token" THEN {IssuedToken(issued + 1)}
    ELSE IF CallFrame(t).fn = "open_session" THEN {Head(prog[t]).expires_in}
    ELSE IF JustIssued(t) THEN Lifetimes
    ELSE {Max(CallFrame(t).expires_in - CallFrame(t).since, 0)}

_request_response_timed(t) ==
    /\ Suspended(t, "_request", "wait")
    /\ \E status \in LifetimeStatuses :
          /\ CallFrame(t).fn = "open_session" => status = 200
          /\ \E body \in Reported(t, status) : Respond(t, status, body)

InitLifetime ==
    /\ InitClient
    /\ client_secret
    /\ \E expires_in \in Lifetimes :
          prog = [Idle EXCEPT ![1] = <<OpenSessionCall(1, RefreshToken),
                                       RefresherCall(expires_in)>>]

Living(t) ==
    \/ Start(t)
    \/ _open_enter(t)
    \/ _request_send(t)
    \/ _request_response_timed(t)
    \/ request_send(t)
    \/ request_return(t)
    \/ request_error(t)
    \/ _validate_token_send(t)
    \/ _validate_token_return(t)
    \/ _validate_token_error(t)
    \/ _generate_token_skip(t)
    \/ _generate_token_enter(t)
    \/ _generate_token_done(t)
    \/ _generate_token_failed(t)
    \/ open_session_open(t)
    \/ open_session_validate(t)
    \/ open_session_return(t)
    \/ Refresher_start(t)
    \/ Refresher_sleep(t)
    \/ Refresher_wake(t, 0)
    \/ Refresher_generated(t)
    \/ Refresher_validated(t)
    \/ Refresher_badrequest(t)

NextLifetime == \E t \in Tasks : Living(t)

SpecLifetime == InitLifetime /\ [][NextLifetime]_vars

\* t's Refresher is about to attempt a token exchange: it has called
\* _generate_token with both credentials present.
AttemptsRefresh(t) ==
    /\ Len(stack[t]) = 2
    /\ stack[t][1].fn = "Refresher"
    /\ stack[t][1].pc = "generating"
    /\ Top(t).fn = "_generate_token"
    /\ Top(t).pc = "start"
    /\ HasCredentials

\* C25 as claimed: at every refresh attempt of the Refresher the remaining
\* lifetime of the token, the expires_in of the most recent validation less
\* the time slept since, is at most 300 seconds.
C25_Original ==
    \A t \in Tasks :
        AttemptsRefresh(t) => stack[t][1].expires_in - stack[t][1].since <= 300

---------------------------------------------------------------------------
(* SpecLock: task 1 opens the session with both credentials and calls      *)
(* _generate_token; task 2 calls close meanwhile.  The event loop runs a   *)
(* task that is ready and the provider answers every request: some step    *)
(* is taken as long as one can be.                                         *)

LockStatuses == {200, 400, 401}

\* The client keeps no record of the requests it has sent, and the loops of
\* request and _validate_token count no iterations: the record of t's call
\* is cut down to its last request and the counts are dropped.
Forget(t) ==
    /\ stack[t] # <<>>
    /\ \/ Len(log[t]) > 1
       \/ \E k \in 1 .. Len(stack[t]) : stack[t][k].nvalid > 0 \/ stack[t][k].ngen > 0
    /\ log' = [log EXCEPT ![t] = IF @ = <<>> THEN @ ELSE <<@[Len(@)]>>]
    /\ stack' = [stack EXCEPT ![t] =
                    [k \in 1 .. Len(@) |-> [@[k] EXCEPT !.nvalid = 0, !.ngen = 0]]]
    /\ UNCHANGED <<flow, session, sessions, locked, waiters, refresh_token,
                   client_secret, prog, ret, results, cur, dispatched, issued>>

InitLock ==
    /\ InitClient
    /\ client_secret
    /\ prog = [Idle EXCEPT ![1] = <<OpenSessionCall(1, RefreshToken), GenerateCall>>,
                           ![2] = <<CloseCall>>]

Locking(t) ==
    \/ StartOpened(t)
    \/ Forget(t)
    \/ _open_enter(t)
    \/ close_enter(t)
    \/ close_queue(t)
    \/ close_wakeup(t)
    \/ close_done(t)
    \/ _request_send(t)
    \/ \E status \in LockStatuses :
          /\ CallFrame(t).fn = "open_session" => status = 200
          /\ _request_response(t, status)
    \/ request_send(t)
    \/ request_return(t)
    \/ request_unauthorized(t)
    \/ request_error(t)
    \/ request_validated(t)
    \/ request_reraise(t)
    \/ _validate_token_send(t)
    \/ _validate_token_return(t)
    \/ _validate_token_generate(t)
    \/ _validate_token_error(t)
    \/ _validate_token_generated(t)
    \/ _generate_token_skip(t)
    \/ _generate_token_enter(t)
    \/ _generate_token_done(t)
    \/ _generate_token_failed(t)
    \/ open_session_open(t)
    \/ open_session_validate(t)
    \/ open_session_return(t)

NextLock == \E t \in Tasks : Locking(t)

SpecLock == InitLock /\ [][NextLock]_vars /\ WF_vars(NextLock)

\* t is in a call of _generate_token that holds the session lock.
Exchanging(t) ==
    \E k \in 1 .. Len(stack[t]) :
        stack[t][k].fn = "_generate_token" /\ stack[t][k].pc = "exchanging"

\* t waits for the session lock.
Waiting(t) == \E k \in 1 .. Len(waiters) : waiters[k] = t

\* C26 as claimed: every call of _generate_token that has taken the session
\* lock ends and releases it, whatever the token endpoint and the
\* validation endpoint answer, and a task that waits for the lock gets it.
C26_Original ==
    \A t \in Tasks :
        /\ Exchanging(t) ~> (~Exchanging(t) /\ ~locked)
        /\ Waiting(t) ~> ~Waiting(t)

---------------------------------------------------------------------------
(* close and the token exchange (SpecSession). *)

\* A call of close holds the session lock, suspended in session.close().
ClosingHeld ==
    \E u \in Tasks : \E k \in 1 .. Len(stack[u]) :
        stack[u][k].fn = "close" /\ stack[u][k].pc = "closing"

\* t is at the first statement of close and takes it.
CloseIssued(t) ==
    /\ stack[t] # <<>>
    /\ Top(t).fn = "close"
    /\ Top(t).pc = "start"
    /\ stack'[t] # stack[t]

\* C27: while a token exchange is in flight the lock is held and the
\* session it was sent on is the client's open session; no session is
\* closed, dropped or replaced in a step taken while a call of
\* _generate_token holds the lock, so that close acts only once the
\* exchange has ended and the step that updates the header and dispatches
\* 'refresh_token' (or the failure) has released the lock; a close issued
\* while _generate_token holds the lock queues on the lock and touches no
\* session; and a call of _generate_token that reaches its lock check while
\* close holds the lock ends in that step, returns None and sends nothing.
C27_CloseWaitsForExchange ==
    [][/\ InFlight' # {} => (locked' /\ is_open')
       /\ ( \/ session' # session
            \/ \E k \in 1 .. Len(sessions) : sessions'[k].closed # sessions[k].closed ) =>
             /\ InFlight = {}
             /\ \A u \in Tasks : ~Exchanging(u)
       /\ \A t \in Tasks :
             /\ (CloseIssued(t) /\ \E u \in Tasks : Exchanging(u)) =>
                   /\ Waiting(t)'
                   /\ session' = session
                   /\ sessions' = sessions
                   /\ log' = log
             /\ (AtLockCheck(t) /\ ClosingHeld /\ stack'[t] # stack[t]) =>
                   /\ stack'[t] = Pop(stack[t])
                   /\ ret'[t] = [kind |-> "val", val |-> None, err |-> "", msg |-> ""]
                   /\ log' = log
      ]_vars

\* close was issued during the exchange of task 1 and waits for the lock;
\* the session is still open.
C27_Witness ==
    /\ InFlight = {1}
    /\ Exchanging(1)
    /\ \E t \in Tasks :
          /\ Waiting(t)
          /\ stack[t] # <<>>
          /\ Top(t).fn = "close"
          /\ Top(t).pc = "queued"
    /\ locked
    /\ is_open

---------------------------------------------------------------------------
(* The Refresher with an expires_in of 300 or less (SpecRefresh). *)

\* t's Refresher is at pc, no call of its under way.
RefresherAt(t, pc) ==
    /\ Len(stack[t]) = 1
    /\ Top(t).fn = "Refresher"
    /\ Top(t).pc = pc

\* t takes a step.
Moves(t) == stack'[t] # stack[t]

\* The call of _generate_token of t's Refresher has ended, in an iteration
\* with an expires_in of 300 or less and both credentials present.
AttemptEnded(t) ==
    /\ RefresherAt(t, "generating")
    /\ Top(t).expires_in <= 300
    /\ HasCredentials
    /\ Moves(t)

\* C28 as claimed: in every iteration of the Refresher with an expires_in
\* of at most 300 and both credentials present, the attempt at a token
\* exchange is followed by a validation.
C28_Original ==
    [][\A t \in Tasks :
          AttemptEnded(t) => /\ Len(stack'[t]) = 2
                             /\ Top(t)'.fn = "_validate_token"]_vars

\* C28, amended: with an expires_in of at most 300 the Refresher asks for a
\* sleep of expires_in - 300, which is not positive, and at the wake-up,
\* with no time slept and nothing sent, calls _generate_token, never the
\* validation directly; with both credentials present that call sends a
\* token exchange when the lock is free and returns None when it is held;
\* when _generate_token returns the Refresher validates, and the validation
\* that returns gives the expires_in of the next iteration; when BadRequest
\* comes out of the attempt the iteration ends without a validation, with
\* the refresh token cleared and expires_in as it was; any other error ends
\* the Refresher.
C28_NoWait ==
    [][\A t \in Tasks :
          /\ (RefresherAt(t, "loop") /\ Top(t).expires_in <= 300 /\ Moves(t)) =>
                /\ Top(t)'.pc = "sleeping"
                /\ Top(t)'.slept = Top(t).expires_in - 300
                /\ Top(t)'.slept <= 0
          /\ (RefresherAt(t, "sleeping") /\ Top(t).expires_in <= 300 /\ Moves(t)) =>
                /\ Len(stack'[t]) = 2
                /\ stack'[t][1].pc = "generating"
                /\ stack'[t][1].since = Top(t).since
                /\ Top(t)'.fn = "_generate_token"
                /\ log' = log
          /\ (AttemptsRefresh(t) /\ stack[t][1].expires_in <= 300 /\ Moves(t)) =>
                IF locked
                THEN /\ stack'[t] = Pop(stack[t])
                     /\ ret'[t] = [kind |-> "val", val |-> None, err |-> "", msg |-> ""]
                     /\ log' = log
                ELSE /\ locked'
                     /\ Top(t)'.fn = "request"
                     /\ Top(t)'.route = "token"
          /\ AttemptEnded(t) =>
                IF ret[t].kind = "val"
                THEN /\ Len(stack'[t]) = 2
                     /\ Top(t)'.fn = "_validate_token"
                     /\ stack'[t][1].expires_in = Top(t).expires_in
                ELSE IF ret[t].err = "BadRequest"
                THEN /\ Len(stack'[t]) = 1
                     /\ Top(t)'.pc = "loop"
                     /\ Top(t)'.expires_in = Top(t).expires_in
                     /\ refresh_token' = NoToken
                     /\ log' = log
                ELSE stack'[t] = <<>>
          /\ (RefresherAt(t, "validating") /\ Returned(t) /\ Moves(t)) =>
                /\ Top(t)'.pc = "loop"
                /\ Top(t)'.expires_in = ret[t].val
      ]_vars

\* The Refresher has gone round without waiting: an exchange, a validation
\* that reported 0, and the exchange of the next iteration, with no sleep.
C28_Witness ==
    /\ RefresherOf(1)
    /\ stack[1] # <<>>
    /\ stack[1][1].expires_in = 0
    /\ stack[1][1].slept = 0 - 300
    /\ stack[1][1].since = 0
    /\ HasCredentials
    /\ Len(log[1]) >= 3
    /\ log[1][1].route = "token"
    /\ log[1][2].route = "validate"
    /\ log[1][2].body = 0
    /\ log[1][3].route = "token"

====
